---- MODULE Spec2Model ----
(***************************************************************************)
(* Verification model of the exploration orchestrator of factif-ai.        *)
(*                                                                         *)
(*   Spec        the useExploreChat hook (frontend/src/utils/              *)
(*               messagePatterns.ts, lines 275-861): message list,         *)
(*               admission guard, exploration graph, frontier queues and   *)
(*               the asynchronous completion handler of every turn.        *)
(*   SpecLive    Spec with weak fairness on the steps that are the hook's  *)
(*               own; the backend's reply and the user stay free.          *)
(*   SpecSeq     the completion handler run turn after turn with nothing   *)
(*               in between, over three pages.                             *)
(*   SpecStream  ExploreModeAnthropicProvider.streamResponse with its      *)
(*               retry loop, and the streaming client that reads its       *)
(*               events.                                                   *)
(*   SpecQueue   handleQueueUpdate as a function of its arguments, applied *)
(*               to every argument list within the bounds.                 *)
(*   SpecParse   MessagePatterns.parseMessage (lines 43-234) as a function  *)
(*               of its input, a text given as a sequence of tokens.       *)
(*   SpecNode    handleEdgeAndNodeCreation as a function of the graph, the *)
(*               url and the screenshot it is called with.                 *)
(*   SpecSSE     SSEService: connect, disconnect, the EventSource's events *)
(*               and the reconnect timers.                                 *)
(*   SpecVNC     DockerVNCService: initialize step by step, cleanup,       *)
(*               performAction and getCurrentUrl.                          *)
(*                                                                         *)
(* JavaScript runs every handler to its next await without interleaving.   *)
(* One action of Spec is one such synchronous block.  A nested call of     *)
(* handleExploreMessage is the one exception: the caller leaves the call   *)
(* in pendingCall and the action HandleExploreMessage executes it as the   *)
(* very next step (every other action is disabled while a call is          *)
(* pending), so the call stays observable as a step of its own.            *)
(***************************************************************************)
EXTENDS Integers, Sequences, FiniteSets, TLC

\* ------------------------------------------------------------- bounds
MaxTurns == 2       \* model turns issued in one behaviour
MaxElems == 2       \* elements reported by one response
MaxMsgs  == 2       \* sendMessage is offered while the list is shorter
MaxCalls  == 2      \* calls of streamResponse in one behaviour
MaxRetry  == 3      \* largest retryCount a call is made with
MaxDeltas == 1      \* chunks one provider stream yields before it ends or fails
MaxListLen == 3     \* elements in a list handed to handleQueueUpdate on its own
MaxSegments == 3    \* segments a text handed to parseMessage is made of
MaxEdges == 2       \* edges drawn in one behaviour of SpecSeq

URLs  == {"https://x/a", "https://x/b"}
\* The keys exploreQueue.current can get.  The replies of Spec report the
\* pages of URLs; SpecSeq, where turns follow one another undisturbed, has a
\* third page to discover.
Pages == URLs \cup {"https://x/c"}
NoUrl == ""         \* getCurrentUrl() yielding null or an empty string

\* One discovered element (IExploredClickableElement): display text and
\* coordinates, either of which may be missing.
ElemKinds ==
  { [text |-> "Login", coordinates |-> "10,20"],
    [text |-> "",      coordinates |-> "10,20"],
    [text |-> "Login", coordinates |-> ""] }

ElementLists == UNION { [1..n -> ElemKinds] : n \in 0..MaxElems }

\* ------------------------------------------------------------- state
VARIABLES
  messages,            \* useState messages, queued updaters applied in order
  messagesRef,         \* messagesRef.current: messages as of the last render
  isChatStreaming,     \* AppContext state, latest value set
  renderedStreaming,   \* isChatStreaming as captured by the rendered closures
  hasPartialMessage,   \* hasPartialMessage.current
  activeMessageId,     \* activeMessageId.current, 0 for null
  isProcessing,        \* isProcessing.current
  exploreQueue,        \* exploreQueue.current: url -> queue of items
  exploreRoute,        \* exploreRoute.current
  nodes,               \* exploreGraphData.current.nodes
  edges,               \* exploreGraphData.current.edges
  currentlyExploring,  \* currentlyExploring.current, id 0 for null
  turns,               \* per message id: where that turn's request/handler is
  pendingCall,         \* a call of handleExploreMessage about to execute
  now,                 \* Date.now() of the next turn; the source of message ids
  uuid,                \* source of uuid() values
  explored,            \* history: the items getNextToExplore returned, in order
  storedMap,           \* localStorage "MAP": the graph last saved
  storedQueue,         \* localStorage "started_explore": the queues last saved
  \* --- the backend call of streamResponse and the client reading it
  calls,               \* streamResponse calls made so far
  callType,            \* the call's type (ExploreActionTypes)
  history,             \* the call's history argument
  imageData,           \* the call carries a screenshot
  retryCount,          \* the call's retryCount
  streamPc,            \* where the call stands
  attempt,             \* calls of processStream made by this call
  deltas,              \* chunks the provider's stream has yielded this attempt
  res,                 \* the events written to the response, in order
  messageRequest,      \* the request last handed to client.messages.create
  pageRouter,          \* ExploreModeAnthropicProvider.pageRouter
  pageUrl,             \* generateComponentDescription's pageUrl while it awaits
  described,           \* history: the urls whose description succeeded
  clientPc,            \* the reading loop of sendChatMessage
  readerPos,           \* events of res the client has read
  fullResponse,        \* the chunks the caller has accumulated, in order
  onCompleteCalls,     \* times onComplete was invoked
  onErrorCalls,        \* times onError was invoked
  connectionTimeout,   \* the 60 s timer of sendChatMessage is armed
  \* --- a function of the hook called on its own
  args,                \* <<>>, or the one argument record of the call
  result,              \* <<>>, or the one value the call returned
  \* --- the services checked on their own
  sse,                 \* the SSEService instance
  vnc                  \* the DockerVNCService instance

chatVars  == <<messages, messagesRef, isChatStreaming, renderedStreaming,
               hasPartialMessage, activeMessageId, isProcessing>>
graphVars == <<exploreQueue, exploreRoute, nodes, edges, currentlyExploring,
               uuid, explored, storedMap, storedQueue>>
turnVars  == <<turns, pendingCall, now>>
exploreVars == <<chatVars, graphVars, turnVars>>
argVars    == <<calls, callType, history, imageData, retryCount>>
callVars   == <<argVars, streamPc, attempt, deltas, res, messageRequest,
                pageRouter, pageUrl, described>>
clientVars == <<clientPc, readerPos, fullResponse, onCompleteCalls,
                onErrorCalls, connectionTimeout>>
streamVars == <<callVars, clientVars>>
pureVars   == <<args, result>>
serviceVars == <<sse, vnc>>
aloneVars  == <<pureVars, serviceVars>>

NoItem == [url |-> NoUrl, id |-> 0, nodeId |-> 0, label |-> ""]
\* A key of localStorage holds <<>> while it was never set, else <<v>> for the
\* value v last written
NoSnapshot == <<>>
NoCall == [type |-> "none", message |-> ""]
\* A turn: pc is where its request or its completion handler stands ("none":
\* not issued, "inflight": request sent, "process": awaiting
\* MessageProcessor.processMessage, "url": awaiting getCurrentUrl, "done",
\* or "exhausted": done at line 720, where no next item was found).
\* The other fields are what the handler carries across its awaits: text
\* (fullResponse is non-blank), and routeSet and parent (the Set built and the
\* currentlyExploring.current passed before the await of getCurrentUrl).
\* stopped is history: the pc this turn had when stopStreaming ran while it was
\* the active turn, "" if that never happened.
NoTurn == [pc |-> "none", text |-> FALSE, routeSet |-> <<>>, parent |-> NoItem,
           stopped |-> ""]

TurnIds == 1..MaxTurns

\* The reply of the backend is an input that never changes once received.
\* The model draws each feature of it in the step where the code first acts on
\* it: whether result.action is non-blank when the reply arrives (line 730);
\* whether MessageProcessor.processExploreMessage finds elements when
\* processExploreOutput starts (line 583); the elements themselves and the
\* image of the reply where the node and the queue are built (lines 593-594);
\* the action result of MessageProcessor.processMessage and whether the text
\* includes "<complete_task>" at line 652.  A blank reply has none of these.

\* ------------------------------------------------------ message list
Msg(text, isUser, isPartial, isHistory) ==
  [text |-> text, isUser |-> isUser, isPartial |-> isPartial,
   isHistory |-> isHistory]

\* addMessage: timestamps of separate calls differ, so nothing is dropped
AddMessage(msgs, m) == Append(msgs, m)

\* updateLastMessage with the updater writing isPartial: false
MarkLastFinal(msgs) ==
  IF Len(msgs) = 0 THEN msgs
  ELSE [msgs EXCEPT ![Len(msgs)].isPartial = FALSE]

\* updateLastMessage with the updater writing isPartial: false, isHistory: true
MarkLastHistory(msgs) ==
  IF Len(msgs) = 0 THEN msgs
  ELSE [msgs EXCEPT ![Len(msgs)].isPartial = FALSE,
                    ![Len(msgs)].isHistory = TRUE]

HasPartial(msgs) == \E i \in 1..Len(msgs) : msgs[i].isPartial

\* handleMessageChunk without its test of activeMessageId
HandleMessageChunkAnyTurn(id, hasText, msgs, hp, active) ==
  IF ~hasText THEN <<msgs, hp>>
  ELSE IF ~hp
       THEN <<AddMessage(msgs, Msg("response", FALSE, TRUE, FALSE)), TRUE>>
       ELSE IF Len(msgs) = 0 THEN <<msgs, hp>>
       ELSE <<[msgs EXCEPT ![Len(msgs)].text = "response"], hp>>

\* handleMessageChunk(messageId, chunk, fullResponse)
\*   -> <<messages, hasPartialMessage>>
HandleMessageChunk(id, hasText, msgs, hp, active) ==
  IF ~hasText \/ active # id THEN <<msgs, hp>>
  ELSE IF ~hp
       THEN <<AddMessage(msgs, Msg("response", FALSE, TRUE, FALSE)), TRUE>>
       ELSE IF Len(msgs) = 0 THEN <<msgs, hp>>
       ELSE <<[msgs EXCEPT ![Len(msgs)].text = "response"], hp>>

\* ------------------------------------------------------------- graph
SeqToSet(s) == { s[i] : i \in 1..Len(s) }

\* createEdgeOrNode(nodes, url) of utils/graph.util.ts: the node recorded for
\* this URL if there is one, else the order to create it
CreateEdgeOrNode(ns, url) ==
  LET hits == { i \in 1..Len(ns) : ns[i].label = url }
  IN IF hits = {} THEN [createNode |-> TRUE, id |-> 0, imageData |-> FALSE]
     ELSE LET i == CHOOSE k \in hits : \A j \in hits : k <= j
          IN [createNode |-> FALSE, id |-> ns[i].id,
              imageData |-> ns[i].imageData]

\* createConstructNode(currentNodeId, {label, imageData})
CreateConstructNode(ns, nodeId, label, image) ==
  Append(ns, [id |-> nodeId, label |-> label, imageData |-> image,
              edges |-> <<>>])

\* createEdge(sourceId, targetId, edgeId, label) -> the new edge list
CreateEdge(es, sourceId, targetId, edgeId, label) ==
  Append(es, [id |-> edgeId, source |-> sourceId, target |-> targetId,
              label |-> label])

\* createEdge's second half: the source node lists the edge among its handles
AttachEdge(ns, sourceId, edgeId) ==
  [i \in 1..Len(ns) |->
     IF ns[i].id = sourceId
     THEN [ns[i] EXCEPT !.edges = Append(@, edgeId)]
     ELSE ns[i]]

\* a handleEdgeAndNodeCreation that never looks the url up
HandleEdgeAndNodeCreationAlways(url, image, ns, es, cur, u) ==
  LET ns1 == CreateConstructNode(ns, u + 1, url, image)
  IN IF cur.id # 0
     THEN [nodes |-> AttachEdge(ns1, cur.nodeId, cur.id),
           edges |-> CreateEdge(es, cur.nodeId, u + 1, cur.id, cur.label),
           nodeId |-> u + 1, uuid |-> u + 1]
     ELSE [nodes |-> ns1, edges |-> es, nodeId |-> u + 1, uuid |-> u + 1]

\* handleEdgeAndNodeCreation(url, imageData), reading currentlyExploring (cur)
HandleEdgeAndNodeCreation(url, image, ns, es, cur, u) ==
  LET can == CreateEdgeOrNode(ns, url)
      nodeId == IF ~can.createNode THEN can.id ELSE u + 1
      u1 == IF can.createNode THEN u + 1 ELSE u
      isFirstNode == Len(ns) = 0
      ns1 == IF can.createNode
             THEN CreateConstructNode(ns, nodeId, url, image)
             ELSE IF isFirstNode /\ ~can.imageData /\ image
                  THEN [i \in 1..Len(ns) |->
                          IF ns[i].id = nodeId
                          THEN [ns[i] EXCEPT !.imageData = TRUE]
                          ELSE ns[i]]
                  ELSE ns
  IN IF cur.id # 0
     THEN [nodes |-> AttachEdge(ns1, cur.nodeId, cur.id),
           edges |-> CreateEdge(es, cur.nodeId, nodeId, cur.id, cur.label),
           nodeId |-> nodeId, uuid |-> u1]
     ELSE [nodes |-> ns1, edges |-> es, nodeId |-> nodeId, uuid |-> u1]

\* an admission test that looks at the text alone
HasText(e) == e.text # ""

\* the admission test of handleQueueUpdate: element.text && element.coordinates
Usable(e) == e.text # "" /\ e.coordinates # ""

\* handleQueueUpdate(elements, fullResponse, url, nodeId, parent):
\* the queue of url with one item appended per usable element
HandleQueueUpdate(q, elems, url, nodeId, parent, u) ==
  LET ok == SelectSeq(elems, Usable)
      item(i) ==
        [text |-> ok[i].text, coordinates |-> ok[i].coordinates,
         url |-> url, id |-> u + i, nodeId |-> nodeId,
         parent |-> [url    |-> IF parent.url # NoUrl THEN parent.url ELSE url,
                     nodeId |-> IF parent.nodeId # 0 THEN parent.nodeId
                                ELSE nodeId,
                     id     |-> IF parent.id # 0 THEN parent.id ELSE u + i]]
  IN [queue |-> [q EXCEPT ![url] = @ \o [i \in 1..Len(ok) |-> item(i)]],
      uuid  |-> u + Len(ok)]

\* cleanCompletedQueue(exploredRoutes, currentQueue): new Set(exploredRoutes);
\* the removal of completed routes is commented out.  A Set keeps insertion
\* order, so the set is modelled as the duplicate-free sequence it spreads to.
RECURSIVE Dedup(_)
Dedup(s) ==
  IF s = <<>> THEN <<>>
  ELSE LET front == Dedup(SubSeq(s, 1, Len(s) - 1))
           last  == s[Len(s)]
       IN IF last \in SeqToSet(front) THEN front ELSE Append(front, last)

CleanCompletedQueue(exploredRoutes, currentQueue) == Dedup(exploredRoutes)

\* processExploreOutput from line 586 on, once getCurrentUrl has answered.
\* routeSet is the set built before the await; parent the value of
\* currentlyExploring.current passed at the call.  explored: the value returned
\* is truthy.
\* map and started are the two keys of localStorage afterwards: "MAP" is set
\* by createConstructNode and by createEdge (lines 424, 447), "started_explore"
\* by handleQueueUpdate (549).
ProcessExploreOutput(elems, image, parent, url, routeSet, q, route, ns, es, cur, u) ==
  IF url = NoUrl
  THEN [queue |-> q, route |-> route, nodes |-> ns, edges |-> es, uuid |-> u,
        explored |-> FALSE, map |-> storedMap, started |-> storedQueue]
  ELSE IF url \notin SeqToSet(routeSet)
  THEN LET g  == HandleEdgeAndNodeCreation(url, image, ns, es, cur, u)
           q0 == [q EXCEPT ![url] = <<>>]
           h  == HandleQueueUpdate(q0, elems, url, g.nodeId, parent,
                                   g.uuid)
           saved == CreateEdgeOrNode(ns, url).createNode \/ cur.id # 0
       IN [queue |-> h.queue, route |-> Append(routeSet, url),
           nodes |-> g.nodes, edges |-> g.edges, uuid |-> h.uuid,
           explored |-> TRUE,
           map |-> IF saved THEN <<[nodes |-> g.nodes, edges |-> g.edges]>>
                   ELSE storedMap,
           started |-> <<h.queue>>]
  ELSE [queue |-> q, route |-> routeSet, nodes |-> ns, edges |-> es,
        uuid |-> u, explored |-> TRUE, map |-> storedMap,
        started |-> storedQueue]

\* a getNextToExplore that looks at the newest route instead
LastRoute(route) == IF Len(route) > 0 THEN route[Len(route)] ELSE NoUrl

\* the route getNextToExplore looks at: always the first one
NextRoute(route) == IF Len(route) > 0 THEN route[1] ELSE NoUrl

\* a getNextToExplore that reads the head of the queue and leaves it queued
PeekNextToExplore(route, q, cur) ==
  LET r   == IF Len(route) > 0 THEN route[1] ELSE NoUrl
      has == r # NoUrl /\ Len(q[r]) > 0
  IN [found |-> has,
      queue |-> q,
      item  |-> IF has THEN [id |-> Head(q[r]).id, url |-> Head(q[r]).url]
                ELSE [id |-> 0, url |-> NoUrl],
      cur   |-> IF has
                THEN [url |-> r, id |-> Head(q[r]).id,
                      nodeId |-> Head(q[r]).nodeId, label |-> Head(q[r]).text]
                ELSE cur]

\* getNextToExplore(): shift() the queue of that route
GetNextToExplore(route, q, cur) ==
  LET r   == NextRoute(route)
      has == r # NoUrl /\ Len(q[r]) > 0
  IN [found |-> has,
      queue |-> IF has THEN [q EXCEPT ![r] = Tail(@)] ELSE q,
      item  |-> IF has THEN [id |-> Head(q[r]).id, url |-> Head(q[r]).url]
                ELSE [id |-> 0, url |-> NoUrl],
      cur   |-> IF has
                THEN [url |-> r, id |-> Head(q[r]).id,
                      nodeId |-> Head(q[r]).nodeId, label |-> Head(q[r]).text]
                ELSE cur]

\* ------------------------------------------------------------ initial
InitExplore ==
  /\ messages = <<>>
  /\ messagesRef = <<>>
  /\ isChatStreaming = FALSE
  /\ renderedStreaming = FALSE
  /\ hasPartialMessage = FALSE
  /\ activeMessageId = 0
  /\ isProcessing = FALSE
  /\ exploreQueue = [u \in Pages |-> <<>>]
  /\ exploreRoute = <<>>
  /\ nodes = <<>>
  /\ edges = <<>>
  /\ currentlyExploring = NoItem
  /\ turns = [t \in TurnIds |-> NoTurn]
  /\ pendingCall = NoCall
  /\ now = 1
  /\ uuid = 0
  /\ explored = <<>>
  /\ storedMap = NoSnapshot
  /\ storedQueue = NoSnapshot

Live == {"inflight", "process", "url"}

Ended(t, how) == [NoTurn EXCEPT !.pc = how, !.stopped = turns[t].stopped]

\* ------------------------------------------------- user-facing handlers
\* sendMessage(message, sendToBackend, type, imageData)
SendMessage ==
  /\ pendingCall = NoCall
  /\ UNCHANGED <<streamVars, aloneVars>>
  /\ Len(messages) < MaxMsgs
  /\ \E blank \in BOOLEAN, sendToBackend \in BOOLEAN,
        type \in {"explore", "action"} :
       IF blank \/ renderedStreaming
       THEN UNCHANGED exploreVars
       ELSE /\ messages' = AddMessage(messages, Msg("user", TRUE, FALSE, TRUE))
            /\ pendingCall' = IF sendToBackend
                              THEN [type |-> type, message |-> "user"]
                              ELSE NoCall
            /\ UNCHANGED <<messagesRef, isChatStreaming, renderedStreaming,
                           hasPartialMessage, activeMessageId, isProcessing,
                           graphVars, turns, now>>

\* The request of a new turn is sent.  The replies of the turns in TurnIds
\* are followed; one more turn may start after them, whose reply does not
\* arrive within the behaviours explored.
LastStart == MaxTurns + 1

StartTurn(ts, id) ==
  IF id \in TurnIds THEN [ts EXCEPT ![id] = [NoTurn EXCEPT !.pc = "inflight"]]
  ELSE ts

\* a handleExploreMessage that does not test isProcessing
HandleExploreMessageUnguarded ==
  /\ pendingCall # NoCall
  /\ UNCHANGED <<streamVars, aloneVars>>
  /\ now <= LastStart
  /\ isProcessing' = TRUE
  /\ activeMessageId' = now
  /\ isChatStreaming' = TRUE
  /\ turns' = StartTurn(turns, now)
  /\ now' = now + 1
  /\ pendingCall' = NoCall
  /\ UNCHANGED <<messages, messagesRef, renderedStreaming, hasPartialMessage,
                 graphVars>>

\* handleExploreMessage(currentMessage, type, ...) up to the fetch of
\* sendExploreChatMessage
HandleExploreMessage ==
  /\ pendingCall # NoCall
  /\ UNCHANGED <<streamVars, aloneVars>>
  /\ IF isProcessing
     THEN /\ pendingCall' = NoCall
          /\ UNCHANGED <<chatVars, graphVars, turns, now>>
     ELSE /\ now <= LastStart
          /\ isProcessing' = TRUE
          /\ activeMessageId' = now
          /\ isChatStreaming' = TRUE
          /\ turns' = StartTurn(turns, now)
          /\ now' = now + 1
          /\ pendingCall' = NoCall
          /\ UNCHANGED <<messages, messagesRef, renderedStreaming,
                         hasPartialMessage, graphVars>>

\* clearChat()
ClearChat ==
  /\ pendingCall = NoCall
  /\ UNCHANGED <<streamVars, aloneVars>>
  /\ IF ~renderedStreaming
     THEN /\ hasPartialMessage' = FALSE
          /\ activeMessageId' = 0
          /\ isProcessing' = FALSE
          /\ messagesRef' = <<>>
          /\ messages' = <<>>
          /\ UNCHANGED <<isChatStreaming, renderedStreaming, graphVars,
                         turnVars>>
     ELSE UNCHANGED exploreVars

\* stopStreaming()
StopStreaming ==
  /\ pendingCall = NoCall
  /\ UNCHANGED <<streamVars, aloneVars>>
  /\ IF renderedStreaming
     THEN /\ activeMessageId' = 0
          /\ hasPartialMessage' = FALSE
          /\ isProcessing' = FALSE
          /\ isChatStreaming' = FALSE
          /\ messages' = IF HasPartial(messagesRef)
                         THEN MarkLastHistory(messages) ELSE messages
          /\ turns' = [t \in TurnIds |->
                         IF t = activeMessageId /\ turns[t].pc \in Live
                         THEN [turns[t] EXCEPT !.stopped = turns[t].pc]
                         ELSE turns[t]]
          /\ UNCHANGED <<messagesRef, renderedStreaming, graphVars,
                         pendingCall, now>>
     ELSE UNCHANGED exploreVars

\* a React render: the closures and messagesRef catch up with the state
Render ==
  /\ pendingCall = NoCall
  /\ UNCHANGED <<streamVars, aloneVars>>
  /\ messagesRef' = messages
  /\ renderedStreaming' = isChatStreaming
  /\ UNCHANGED <<messages, isChatStreaming, hasPartialMessage,
                 activeMessageId, isProcessing, graphVars, turnVars>>

\* ------------------------------------------------ the turn's callbacks
\* handleError(messageId, error), called by sendExploreChatMessage's catch
RequestFails(t) ==
  /\ pendingCall = NoCall
  /\ UNCHANGED <<streamVars, aloneVars>>
  /\ turns[t].pc = "inflight"
  /\ IF activeMessageId = t
     THEN /\ isChatStreaming' = FALSE
          /\ hasPartialMessage' = FALSE
          /\ activeMessageId' = 0
          /\ isProcessing' = FALSE
          /\ messages' =
               AddMessage(IF HasPartial(messagesRef)
                          THEN MarkLastFinal(messages) ELSE messages,
                          Msg("error", FALSE, FALSE, FALSE))
          /\ turns' = [turns EXCEPT ![t] = Ended(t, "done")]
     ELSE /\ turns' = [turns EXCEPT ![t] = Ended(t, "done")]
          /\ UNCHANGED <<messages, isChatStreaming, hasPartialMessage,
                         activeMessageId, isProcessing>>
  /\ UNCHANGED <<messagesRef, renderedStreaming, graphVars, pendingCall, now>>

\* sendExploreChatMessage receives the reply: onChunk(result.action), then
\* onComplete(result.imageData), i.e. handleMessageCompletion to its first await
ResponseArrives(t) ==
  /\ pendingCall = NoCall
  /\ UNCHANGED <<streamVars, aloneVars>>
  /\ turns[t].pc = "inflight"
  /\ \E text \in BOOLEAN :
       LET c == HandleMessageChunk(t, text, messages, hasPartialMessage,
                                   activeMessageId)
       IN IF activeMessageId # t
          THEN /\ messages' = c[1]
               /\ hasPartialMessage' = c[2]
               /\ turns' = [turns EXCEPT ![t] = Ended(t, "done")]
          ELSE /\ hasPartialMessage' = FALSE
               /\ messages' = MarkLastFinal(c[1])
               /\ turns' = [turns EXCEPT ![t].pc = "process",
                                         ![t].text = text]
  /\ UNCHANGED <<messagesRef, isChatStreaming, renderedStreaming,
                 activeMessageId, isProcessing, graphVars, pendingCall, now>>

\* handleMessageCompletion from line 652 on, with the state processExploreOutput
\* left (g) and the truthiness of the value it returned
Branch(t, completeTask, actionResult, g) ==
  LET nx == GetNextToExplore(g.route, g.queue, currentlyExploring)
  IN
  /\ exploreRoute' = g.route
  /\ nodes' = g.nodes
  /\ edges' = g.edges
  /\ uuid' = g.uuid
  /\ storedMap' = g.map
  /\ storedQueue' = g.started
  /\ UNCHANGED <<messagesRef, renderedStreaming, hasPartialMessage, now>>
  /\ turns' = [turns EXCEPT ![t] =
                 Ended(t, IF ~(actionResult \/ completeTask) /\ g.explored
                             /\ ~nx.found
                          THEN "exhausted" ELSE "done")]
  /\ IF actionResult \/ completeTask
     THEN \* lines 656-687
          /\ messages' =
               IF actionResult
               THEN AddMessage(MarkLastHistory(messages),
                               Msg("actionResult", FALSE, FALSE, FALSE))
               ELSE MarkLastHistory(messages)
          /\ isProcessing' = FALSE
          /\ pendingCall' =
               [type |-> IF completeTask THEN "explore" ELSE "action",
                message |-> IF actionResult THEN "actionResult" ELSE "response"]
          /\ exploreQueue' = g.queue
          /\ UNCHANGED <<isChatStreaming, activeMessageId, currentlyExploring,
                         explored>>
     ELSE IF g.explored
     THEN \* onGettingExploredMode
          /\ exploreQueue' = nx.queue
          /\ currentlyExploring' = nx.cur
          /\ explored' = IF nx.found THEN Append(explored, nx.item)
                         ELSE explored
          /\ isProcessing' = FALSE
          /\ messages' = IF nx.found
                         THEN <<Msg("directed", TRUE, FALSE, FALSE)>>
                         ELSE <<>>
          /\ pendingCall' = IF nx.found
                            THEN [type |-> "action", message |-> "directed"]
                            ELSE NoCall
          /\ isChatStreaming' = IF nx.found THEN isChatStreaming ELSE FALSE
          /\ UNCHANGED activeMessageId
     ELSE \* lines 691-698
          /\ messages' = MarkLastHistory(messages)
          /\ isChatStreaming' = FALSE
          /\ activeMessageId' = 0
          /\ isProcessing' = FALSE
          /\ exploreQueue' = g.queue
          /\ UNCHANGED <<pendingCall, currentlyExploring, explored>>

\* a no-element turn that throws the frontier away
UnchangedButQueues(explored0) ==
  [queue |-> [u \in Pages |-> <<>>], route |-> exploreRoute, nodes |-> nodes,
   edges |-> edges, uuid |-> uuid, explored |-> explored0,
   map |-> storedMap, started |-> storedQueue]

\* the graph state as it stands, for a turn that reported no element
Unchanged(explored0) ==
  [queue |-> exploreQueue, route |-> exploreRoute, nodes |-> nodes,
   edges |-> edges, uuid |-> uuid, explored |-> explored0,
   map |-> storedMap, started |-> storedQueue]

\* MessageProcessor.processMessage resolves; processExploreOutput runs to its
\* await of getCurrentUrl, or to its end when no element was reported
ProcessMessageDone(t) ==
  /\ pendingCall = NoCall
  /\ UNCHANGED <<streamVars, aloneVars>>
  /\ turns[t].pc = "process"
  /\ \E hasElements \in BOOLEAN, actionResult \in BOOLEAN,
        completeTask \in BOOLEAN :
       /\ ~turns[t].text => (~hasElements /\ ~actionResult /\ ~completeTask)
       /\ LET routeSet == CleanCompletedQueue(exploreRoute, exploreQueue)
          IN IF hasElements
             THEN /\ ~actionResult /\ ~completeTask   \* read after the await
                  /\ turns' = [turns EXCEPT ![t].pc = "url",
                                            ![t].routeSet = routeSet,
                                            ![t].parent = currentlyExploring]
                  /\ UNCHANGED <<chatVars, graphVars, pendingCall, now>>
             ELSE Branch(t, completeTask, actionResult,
                         [Unchanged(FALSE) EXCEPT !.route = routeSet])

\* The elements and the image of the reply are read only where a new url gets
\* its node and its queue (lines 589-602); for any other url one list and one
\* image stand for all of them.  In Spec the reply that reports a new page
\* carries its screenshot.
IsNewUrl(t, url) == url # NoUrl /\ url \notin SeqToSet(turns[t].routeSet)

ElementsRead(t, url) ==
  IF IsNewUrl(t, url) THEN ElementLists \ {<<>>}
  ELSE { <<[text |-> "Login", coordinates |-> "10,20"]>> }

ImagesRead(t, url) == IF IsNewUrl(t, url) THEN {TRUE} ELSE {FALSE}

\* getCurrentUrl resolves; the rest of processExploreOutput and of
\* handleMessageCompletion run
CurrentUrlDone(t) ==
  /\ pendingCall = NoCall
  /\ UNCHANGED <<streamVars, aloneVars>>
  /\ turns[t].pc = "url"
  /\ \E url \in URLs \cup {NoUrl}, actionResult \in BOOLEAN,
        completeTask \in BOOLEAN :
       \E elems \in ElementsRead(t, url), image \in ImagesRead(t, url) :
         Branch(t, completeTask, actionResult,
                ProcessExploreOutput(elems, image, turns[t].parent, url,
                                     turns[t].routeSet, exploreQueue,
                                     exploreRoute, nodes, edges,
                                     currentlyExploring, uuid))

\* processExploreOutput for a new url up to its first localStorage.setItem,
\* which throws: line 424 when the node is created, else line 447 when an
\* edge is, else line 549.  The queue of url was reset at line 592;
\* exploreRoute.current is written at line 604 only.
ProcessExploreOutputThrows(elems, image, parent, url, q, ns, es, cur, u) ==
  LET can == CreateEdgeOrNode(ns, url)
      q0  == [q EXCEPT ![url] = <<>>]
  IN IF can.createNode
     THEN [queue |-> q0, nodes |-> CreateConstructNode(ns, u + 1, url, image),
           edges |-> es, uuid |-> u + 1]
     ELSE IF cur.id # 0
     THEN [queue |-> q0, nodes |-> AttachEdge(ns, cur.nodeId, cur.id),
           edges |-> CreateEdge(es, cur.nodeId, can.id, cur.id, cur.label),
           uuid |-> u]
     ELSE LET h == HandleQueueUpdate(q0, elems, url, can.id, parent, u)
          IN [queue |-> h.queue, nodes |-> ns, edges |-> es, uuid |-> h.uuid]

\* getCurrentUrl resolves with a new url and localStorage refuses the write
\* (quota, or storage disabled): setItem throws inside processExploreOutput.
\* No try encloses it there or in handleMessageCompletion, and onComplete is
\* called without await (part_003 line 345), so the handler ends here.
SnapshotThrows(t) ==
  /\ pendingCall = NoCall
  /\ UNCHANGED <<streamVars, aloneVars>>
  /\ turns[t].pc = "url"
  /\ \E url \in URLs :
       /\ IsNewUrl(t, url)
       /\ \E elems \in ElementsRead(t, url), image \in ImagesRead(t, url) :
            LET g == ProcessExploreOutputThrows(elems, image, turns[t].parent,
                                                url, exploreQueue, nodes,
                                                edges, currentlyExploring,
                                                uuid)
            IN /\ exploreQueue' = g.queue
               /\ nodes' = g.nodes
               /\ edges' = g.edges
               /\ uuid' = g.uuid
  /\ turns' = [turns EXCEPT ![t] = Ended(t, "threw")]
  /\ UNCHANGED <<chatVars, exploreRoute, currentlyExploring, explored,
                 storedMap, storedQueue, pendingCall, now>>

\* ============================================== streamResponse (backend)
\* One event of the response (StreamResponse).  attempt is history: the call
\* of processStream that wrote it, 0 for the event written after the loop.
Event(message, isComplete, isError, n) ==
  [message |-> message, isComplete |-> isComplete, isError |-> isError,
   attempt |-> n]

\* processStreamResponse: a text delta, and the closing event
DeltaEvent(n)    == Event("delta", FALSE, FALSE, n)
CompleteEvent(n) == Event("", TRUE, FALSE, n)
\* the catch of processStream
RetryEvent(n)    == Event("Error processing message re-trying", FALSE, FALSE, n)
\* an event after the loop that is not marked as an error
UnmarkedEvent ==
  Event("Error processing message. Please try again later.", FALSE, FALSE, 0)

\* streamResponse after the loop
ExhaustedEvent   ==
  Event("Error processing message. Please try again later.", FALSE, TRUE, 0)

\* sendStreamResponse(res, data)
SendStreamResponse(r, data) == Append(r, data)

Content(text, task, url, image) ==
  [text |-> text, task |-> task, url |-> url, image |-> image]

\* getLastUserMessage(history): the text of the first message
GetLastUserMessage(h) == IF Len(h) > 0 THEN h[1].text ELSE ""

\* chooseSystemPrompt(action, source, task, currentPageUrl)
ChooseSystemPrompt(action, task, url) ==
  IF action = "explore"
  THEN << [role |-> "user",
           content |-> Content("exploreModePrompt", "", "", FALSE)] >>
  ELSE << [role |-> "user",
           content |-> Content("performActionPrompt", task, url, FALSE)],
          [role |-> "assistant",
           content |-> Content("I understand.", "", "", FALSE)] >>

\* formatMessagesWithHistory(currentMessage, history, imageData, source, mode,
\* type, currentPageUrl)
FormatMessagesWithHistory(currentMessage, h, image, ty, url) ==
  ChooseSystemPrompt(ty, IF ty = "action" THEN GetLastUserMessage(h) ELSE "",
                     url)
  \o (IF ty = "action"
      THEN [i \in 1..Len(h) |->
              [role |-> IF h[i].isUser THEN "user" ELSE "assistant",
               content |-> Content(h[i].text, "", "", FALSE)]]
      ELSE <<>>)
  \o << [role |-> "user", content |-> Content(currentMessage, "", "", image)] >>

Histories ==
  { <<>>,
    << [text |-> "task", isUser |-> TRUE],
       [text |-> "reply", isUser |-> FALSE] >> }

\* a loop that goes on whatever processStream returned
AlwaysLoop(isRetrySuccessful) == "loop"

\* streamResponse, lines 204-207: what follows a call of processStream
AfterAttempt(isRetrySuccessful) ==
  IF isRetrySuccessful THEN "resolved" ELSE "loop"

IdleClient ==
  /\ clientPc = "idle"
  /\ readerPos = 0
  /\ fullResponse = <<>>
  /\ onCompleteCalls = 0
  /\ onErrorCalls = 0
  /\ connectionTimeout = FALSE

InitStream ==
  /\ calls = 0
  /\ callType = "explore"
  /\ history = <<>>
  /\ imageData = FALSE
  /\ retryCount = 0
  /\ streamPc = "idle"
  /\ attempt = 0
  /\ deltas = 0
  /\ res = <<>>
  /\ messageRequest = <<>>
  /\ pageRouter = {}
  /\ pageUrl = NoUrl
  /\ described = {}
  /\ IdleClient

Settled == {"resolved", "rejected"}

\* sendChatMessage posts the request and streamResponse is entered (lines
\* 176-191): an EXPLORE call first awaits generateComponentDescription
StreamResponse ==
  /\ streamPc \in {"idle"} \cup Settled
  /\ clientPc \in {"idle", "ended"}
  /\ calls < MaxCalls
  /\ calls' = calls + 1
  /\ \E ty \in {"explore", "action"}, h \in Histories, image \in BOOLEAN,
        n \in 0..MaxRetry :
       /\ callType' = ty
       /\ history' = h
       /\ imageData' = image
       /\ retryCount' = n
       /\ streamPc' = IF ty = "explore" THEN "describe" ELSE "loop"
  /\ attempt' = 0
  /\ deltas' = 0
  /\ res' = <<>>
  /\ messageRequest' = <<>>
  /\ clientPc' = "reading"
  /\ readerPos' = 0
  /\ fullResponse' = <<>>
  /\ onCompleteCalls' = 0
  /\ onErrorCalls' = 0
  /\ connectionTimeout' = TRUE
  /\ UNCHANGED <<pageRouter, pageUrl, described, exploreVars, aloneVars>>

\* generateComponentDescription to its model call (lines 340-364)
GenerateComponentDescription ==
  /\ streamPc = "describe"
  /\ \E url \in URLs \cup {NoUrl} :
       IF url \in pageRouter
       THEN /\ streamPc' = "loop"
            /\ UNCHANGED <<pageRouter, pageUrl>>
       ELSE /\ pageRouter' = pageRouter \cup {url}
            /\ pageUrl' = url
            /\ streamPc' = "describing"
  /\ UNCHANGED <<argVars, attempt, deltas, res, messageRequest, described,
                 clientVars, exploreVars, aloneVars>>

\* the model call and saveFileAndScreenshot succeed (lines 364-372)
DescriptionDone ==
  /\ streamPc = "describing"
  /\ pageRouter' = pageRouter \ {pageUrl}
  /\ described' = described \cup {pageUrl}
  /\ pageUrl' = NoUrl
  /\ streamPc' = "loop"
  /\ UNCHANGED <<argVars, attempt, deltas, res, messageRequest, clientVars,
                 exploreVars, aloneVars>>

\* the model call or saveFileAndScreenshot throws: nothing catches it, so the
\* promise of streamResponse rejects at line 189
DescriptionThrows ==
  /\ streamPc = "describing"
  /\ pageUrl' = NoUrl
  /\ streamPc' = "rejected"
  /\ UNCHANGED <<argVars, attempt, deltas, res, messageRequest, pageRouter,
                 described, clientVars, exploreVars, aloneVars>>

\* one iteration of the loop enters processStream, which builds the request
\* and hands it to client.messages.create (lines 244-271)
ProcessStream ==
  /\ streamPc = "loop"
  /\ attempt < retryCount
  /\ attempt' = attempt + 1
  /\ deltas' = 0
  /\ \E url \in URLs \cup {NoUrl} :
       messageRequest' =
         FormatMessagesWithHistory("message", history, imageData, callType,
                                   url)
  /\ streamPc' = "create"
  /\ UNCHANGED <<argVars, res, pageRouter, pageUrl, described, clientVars,
                 exploreVars, aloneVars>>

\* client.messages.create resolves with the stream
CreateDone ==
  /\ streamPc = "create"
  /\ streamPc' = "stream"
  /\ UNCHANGED <<argVars, attempt, deltas, res, messageRequest, pageRouter,
                 pageUrl, described, clientVars, exploreVars, aloneVars>>

\* processStreamResponse, one chunk of the stream (lines 146-153)
StreamChunk ==
  /\ streamPc = "stream"
  /\ deltas < MaxDeltas
  /\ deltas' = deltas + 1
  /\ \E isTextDelta \in BOOLEAN :
       res' = IF isTextDelta THEN SendStreamResponse(res, DeltaEvent(attempt))
              ELSE res
  /\ UNCHANGED <<argVars, streamPc, attempt, messageRequest, pageRouter,
                 pageUrl, described, clientVars, exploreVars, aloneVars>>

\* the stream ends: the closing event, processStream returns true and
\* streamResponse returns (lines 154-159, 273, 204-206)
StreamEnds ==
  /\ streamPc = "stream"
  /\ res' = SendStreamResponse(res, CompleteEvent(attempt))
  /\ streamPc' = AfterAttempt(TRUE)
  /\ deltas' = 0
  /\ UNCHANGED <<argVars, attempt, messageRequest, pageRouter, pageUrl,
                 described, clientVars, exploreVars, aloneVars>>

\* client.messages.create or the iteration of the stream throws: the catch of
\* processStream (lines 274-283)
AttemptThrows ==
  /\ streamPc \in {"create", "stream"}
  /\ res' = SendStreamResponse(res, RetryEvent(attempt))
  /\ streamPc' = AfterAttempt(FALSE)
  /\ deltas' = 0
  /\ UNCHANGED <<argVars, attempt, messageRequest, pageRouter, pageUrl,
                 described, clientVars, exploreVars, aloneVars>>

\* the loop is over without a success (lines 209-215)
RetriesExhausted ==
  /\ streamPc = "loop"
  /\ attempt >= retryCount
  /\ res' = SendStreamResponse(res, ExhaustedEvent)
  /\ streamPc' = "resolved"
  /\ UNCHANGED <<argVars, attempt, deltas, messageRequest, pageRouter,
                 pageUrl, described, clientVars, exploreVars, aloneVars>>

\* ============================================= sendChatMessage (client)
\* the reading loop takes the next event (lines 103-115); the caller's onChunk
\* appends the chunk to its fullResponse
ClientReads ==
  /\ clientPc = "reading"
  /\ readerPos < Len(res)
  /\ readerPos' = readerPos + 1
  /\ connectionTimeout' = FALSE
  /\ LET data == res[readerPos + 1]
     IN IF data.isComplete
        THEN /\ onCompleteCalls' = onCompleteCalls + 1
             /\ clientPc' = "ended"
             /\ UNCHANGED <<fullResponse, onErrorCalls>>
        ELSE IF data.isError
        THEN /\ onErrorCalls' = onErrorCalls + 1
             /\ clientPc' = "ended"
             /\ UNCHANGED <<fullResponse, onCompleteCalls>>
        ELSE IF data.message # ""
        THEN /\ fullResponse' = Append(fullResponse, data)
             /\ UNCHANGED <<clientPc, onCompleteCalls, onErrorCalls>>
        ELSE UNCHANGED <<clientPc, fullResponse, onCompleteCalls,
                         onErrorCalls>>
  /\ UNCHANGED <<callVars, exploreVars, aloneVars>>

\* reader.read() reports done (lines 92-95): the response was closed, which
\* the server does once the call has settled
ClientStreamDone ==
  /\ clientPc = "reading"
  /\ readerPos = Len(res)
  /\ streamPc \in Settled
  /\ onCompleteCalls' = onCompleteCalls + 1
  /\ clientPc' = "ended"
  /\ UNCHANGED <<readerPos, fullResponse, onErrorCalls, connectionTimeout,
                 callVars, exploreVars, aloneVars>>

\* the timer set at line 79 fires (60 s have passed) before any chunk was
\* read: reader.cancel() and onError (lines 80-84).  Nothing clears the timer
\* when the stream ends without a chunk (lines 92-95), so it can fire after
\* the loop has ended as well.
ConnectionTimeout ==
  /\ connectionTimeout
  /\ clientPc \in {"reading", "ended"}
  /\ readerPos = Len(res)
  /\ connectionTimeout' = FALSE
  /\ onErrorCalls' = onErrorCalls + 1
  /\ clientPc' = IF clientPc = "reading" THEN "cancelled" ELSE clientPc
  /\ UNCHANGED <<readerPos, fullResponse, onCompleteCalls, callVars,
                 exploreVars, aloneVars>>

\* the caller invokes the cleanup function sendChatMessage returned (lines
\* 131-136): clearTimeout and reader.cancel()
Cleanup ==
  /\ clientPc = "reading"
  /\ connectionTimeout' = FALSE
  /\ clientPc' = "cancelled"
  /\ UNCHANGED <<readerPos, fullResponse, onCompleteCalls, onErrorCalls,
                 callVars, exploreVars, aloneVars>>

\* the read that was pending when the reader was cancelled resolves with
\* done: true, and the loop calls onComplete (lines 90-95)
ReadAfterCancel ==
  /\ clientPc = "cancelled"
  /\ onCompleteCalls' = onCompleteCalls + 1
  /\ clientPc' = "ended"
  /\ UNCHANGED <<readerPos, fullResponse, onErrorCalls, connectionTimeout,
                 callVars, exploreVars, aloneVars>>

NextStream ==
  \/ StreamResponse
  \/ GenerateComponentDescription
  \/ DescriptionDone
  \/ DescriptionThrows
  \/ ProcessStream
  \/ CreateDone
  \/ StreamChunk
  \/ StreamEnds
  \/ AttemptThrows
  \/ RetriesExhausted
  \/ ClientReads
  \/ ClientStreamDone
  \/ ConnectionTimeout
  \/ Cleanup
  \/ ReadAfterCancel

Next ==
  \/ SendMessage
  \/ HandleExploreMessage
  \/ ClearChat
  \/ StopStreaming
  \/ Render
  \/ \E t \in TurnIds : RequestFails(t)
  \/ \E t \in TurnIds : ResponseArrives(t)
  \/ \E t \in TurnIds : ProcessMessageDone(t)
  \/ \E t \in TurnIds : CurrentUrlDone(t)
  \/ \E t \in TurnIds : SnapshotThrows(t)

vars == <<exploreVars, streamVars, aloneVars>>

\* The services before any call: the fields as their classes declare them.
NewSSEService ==
  [eventSource |-> "null", reconnectAttempts |-> 0, timers |-> <<>>,
   live |-> 0, delays |-> <<>>, errors |-> 0, lastCall |-> "",
   calls |-> 0]

NewDockerVNCService ==
  [isInitialized |-> FALSE, isConnected |-> FALSE, containerId |-> 0,
   pc |-> "idle", existing |-> FALSE, url |-> FALSE, attempts |-> 0,
   outcome |-> "", failedAt |-> "",
   lastCall |-> [by |-> "", status |-> "", ranCommand |-> FALSE],
   inits |-> 0]

InitService == sse = NewSSEService /\ vnc = NewDockerVNCService

InitPure == args = <<>> /\ result = <<>>

Init == InitExplore /\ InitStream /\ InitPure /\ InitService

Spec == Init /\ [][Next]_vars

\* The steps that are the hook's own or the browser's: a call about to run
\* runs, React renders, the promises the completion handler awaits settle.
\* What the user does and whether the backend ever answers the POST of
\* sendExploreChatMessage are left open: its fetch has no timeout and no
\* AbortController, so nothing in the program makes the reply arrive.
Fairness ==
  /\ WF_vars(HandleExploreMessage)
  /\ WF_vars(Render)
  /\ \A t \in TurnIds : WF_vars(ProcessMessageDone(t))
  /\ \A t \in TurnIds : WF_vars(CurrentUrlDone(t) \/ SnapshotThrows(t))

SpecLive == Init /\ [][Next]_vars /\ Fairness

\* ------------------------------------------- turns handled one at a time
\* One run of handleMessageCompletion from line 640 to its end with nothing
\* in between: no stop, no clear, no other handler, storage that accepts every
\* write.  The turns of a session that nobody disturbs follow one another
\* like this: the call made at the end of one run (674-687, 702-722), or the
\* user's next message after an idle end, brings the next reply.  The record
\* of the turn is kept in the first slot of turns.
CompletionRuns ==
  /\ Len(edges) < MaxEdges
  /\ Len(messages) <= MaxMsgs
  /\ UNCHANGED <<streamVars, aloneVars>>
  /\ \E hasElements \in BOOLEAN, actionResult \in BOOLEAN,
        completeTask \in BOOLEAN :
       LET routeSet == CleanCompletedQueue(exploreRoute, exploreQueue)
       IN IF hasElements
          THEN \E url \in Pages \cup {NoUrl}, elems \in ElementLists \ {<<>>} :
                 Branch(1, completeTask, actionResult,
                        ProcessExploreOutput(elems, TRUE, currentlyExploring,
                                             url, routeSet, exploreQueue,
                                             exploreRoute, nodes, edges,
                                             currentlyExploring, uuid))
          ELSE Branch(1, completeTask, actionResult,
                      [Unchanged(FALSE) EXCEPT !.route = routeSet])

NextSeq == CompletionRuns

SpecSeq == Init /\ [][NextSeq]_vars

SpecStream == Init /\ [][NextStream]_vars

\* ========================================= handleQueueUpdate on its own
\* The elements MessageProcessor.processExploreMessage may hand over: text
\* and coordinates each present or missing, two texts to tell the order by.
QueueElemKinds ==
  [text : {"Login", "Signup", ""}, coordinates : {"10,20", ""}]

QueueElementLists == UNION { [1..n -> QueueElemKinds] : n \in 0..MaxListLen }

\* the parent argument: null at the first page, else currentlyExploring.current
QueueParents == {NoItem, [url |-> "https://x/a", id |-> 2, nodeId |-> 1,
                          label |-> "Login"]}

\* the queues at the call: processExploreOutput has just emptied that of url
\* (line 592)
QueueArgs ==
  [elements : QueueElementLists, url : URLs, nodeId : {3},
   parent : QueueParents, queue : {[u \in URLs |-> <<>>]}, uuid : {3}]

InitQueue ==
  /\ InitExplore
  /\ InitStream
  /\ InitService
  /\ args \in { <<a>> : a \in QueueArgs }
  /\ result = <<>>

\* handleQueueUpdate(processedExploreMessage, fullResponse, url, nodeId, parent)
HandleQueueUpdateCall ==
  /\ result = <<>>
  /\ result' = <<HandleQueueUpdate(args[1].queue, args[1].elements,
                                   args[1].url, args[1].nodeId,
                                   args[1].parent, args[1].uuid)>>
  /\ UNCHANGED <<args, exploreVars, streamVars, serviceVars>>

NextQueue == HandleQueueUpdateCall

SpecQueue == InitQueue /\ [][NextQueue]_vars

\* ================================= handleEdgeAndNodeCreation on its own
\* the graphs the call may find: one node per url, with or without screenshot
NodeLists ==
  { ns \in UNION { [1..n -> [id : 1..2, label : URLs, imageData : BOOLEAN,
                             edges : {<<>>}]] : n \in 0..2 } :
      /\ \A i \in 1..Len(ns) : ns[i].id = i
      /\ \A i, j \in 1..Len(ns) : ns[i].label = ns[j].label => i = j }

\* currentlyExploring.current at the call: null, or an item of the first node
NodeCurrents(ns) ==
  IF ns = <<>> THEN {NoItem}
  ELSE {NoItem, [url |-> ns[1].label, id |-> 3, nodeId |-> 1,
                 label |-> "Login"]}

NodeArgs ==
  { [url |-> url, imageData |-> image, nodes |-> ns, edges |-> <<>>,
     cur |-> cur, uuid |-> 3] :
      url \in URLs, image \in BOOLEAN,
      ns \in NodeLists, cur \in [url : URLs, id : {0, 3}, nodeId : {0, 1},
                                 label : {"", "Login"}] \cup {NoItem} }

InitNode ==
  /\ InitExplore
  /\ InitStream
  /\ InitService
  /\ args \in { <<a>> : a \in { x \in NodeArgs :
                                   x.cur \in NodeCurrents(x.nodes) } }
  /\ result = <<>>

\* handleEdgeAndNodeCreation(url, imageData)
HandleEdgeAndNodeCreationCall ==
  /\ result = <<>>
  /\ result' = <<HandleEdgeAndNodeCreation(args[1].url, args[1].imageData,
                                           args[1].nodes, args[1].edges,
                                           args[1].cur, args[1].uuid)>>
  /\ UNCHANGED <<args, exploreVars, streamVars, serviceVars>>

NextNode == HandleEdgeAndNodeCreationCall

SpecNode == InitNode /\ [][NextNode]_vars

\* ========================================= MessagePatterns.parseMessage
\* A text is a sequence of tokens: a tag of the grammar, a blank, or a piece of
\* text without "<".  indexOf, slice and trim act on tokens as they act on the
\* characters of the text the tokens spell.
Ws == " "

TagPairs ==
  << [open |-> "<ask_followup_question>", close |-> "</ask_followup_question>",
      type |-> "followup_question"],
     [open |-> "<complete_task>", close |-> "</complete_task>",
      type |-> "complete_task"],
     [open |-> "<perform_action>", close |-> "</perform_action>",
      type |-> "perform_action"],
     [open |-> "<perform_action_result>", close |-> "</perform_action_result>",
      type |-> "action_result"] >>

Least(S) == CHOOSE i \in S : \A j \in S : i <= j

\* text.indexOf(tok, from), positions counted from 1 and 0 for "not found"
IndexOf(text, tok, from) ==
  LET hits == { i \in from..Len(text) : text[i] = tok }
  IN IF hits = {} THEN 0 ELSE Least(hits)

\* text.trim()
Trim(text) ==
  LET solid == { i \in 1..Len(text) : text[i] # Ws }
  IN IF solid = {} THEN <<>>
     ELSE SubSeq(text, Least(solid),
                 CHOOSE i \in solid : \A j \in solid : j <= i)

\* where [\s\n]* stops when it starts at position i
SkipWs(text, i) ==
  LET solid == { j \in i..Len(text) : text[j] # Ws }
  IN IF solid = {} THEN Len(text) + 1 ELSE Least(solid)

At(text, i) == IF i \in 1..Len(text) THEN text[i] ELSE ""

NoMatch == [ok |-> FALSE, threw |-> FALSE, content |-> <<>>]

\* JSON.parse accepts the text: here the one token "{}", blanks around it
ValidJson(text) == Trim(text) = <<"{}">>

\* fullMatch.match(patterns.followupQuestion)?.[1], and the test of line 227
ProcessFollowupQuestion(f) ==
  LET rest(k) ==
        LET c == SkipWs(f, k)
        IN /\ At(f, c) = "</question>"
           /\ At(f, SkipWs(f, c + 1)) = "</ask_followup_question>"
      ends(a) ==
        LET q == SkipWs(f, a + 1)
            p == SkipWs(f, q + 1)
        IN IF At(f, q) # "<question>" THEN {}
           ELSE { e \in (p - 1)..Len(f) : rest(e + 1) }
      starts == { a \in 1..Len(f) :
                    f[a] = "<ask_followup_question>" /\ ends(a) # {} }
  IN IF starts = {} THEN NoMatch
     ELSE LET a == Least(starts)
              p == SkipWs(f, SkipWs(f, a + 1) + 1)
              question == SubSeq(f, p, Least(ends(a)))
          IN IF question = <<>> THEN NoMatch
             ELSE [ok |-> TRUE, threw |-> FALSE, content |-> question]

\* fullMatch.match(patterns.completeTask)?.[1], and the test of line 209
\* (texts without a <command> tag)
ProcessCompleteTaskMatch(f) ==
  LET closes(a) ==
        LET r == SkipWs(f, a + 1)
        IN IF At(f, r) # "<result>" THEN {}
           ELSE { c \in (r + 1)..Len(f) :
                    /\ f[c] = "</result>"
                    /\ At(f, SkipWs(f, c + 1)) = "</complete_task>" }
      starts == { a \in 1..Len(f) : f[a] = "<complete_task>" /\ closes(a) # {} }
  IN IF starts = {} THEN NoMatch
     ELSE LET a == Least(starts)
              r == SkipWs(f, a + 1)
              resultText == SubSeq(f, r + 1, Least(closes(a)) - 1)
          IN IF resultText = <<>> THEN NoMatch
             ELSE [ok |-> TRUE, threw |-> FALSE, content |-> resultText]

\* fullMatch.match(patterns.performAction), action = actionMatch[1]
\* (texts without the optional fields of an action)
PerformActionMatch(f) ==
  LET b == IndexOf(f, "<action>", 2)
      c == IF b = 0 THEN 0 ELSE IndexOf(f, "</action>", b + 1)
  IN IF c = 0 THEN NoMatch
     ELSE [ok |-> TRUE, threw |-> FALSE, content |-> SubSeq(f, b + 1, c - 1)]

\* fullMatch.match(patterns.actionResult), message = resultMatch[2] and
\* JSON.parse(resultMatch[4]) (texts without a <screenshot> tag)
PerformActionResultMatch(f) ==
  LET triples == { i \in 2..Len(f) :
                     /\ f[i] = "<action_status>"
                     /\ At(f, i + 1) \in {"success", "error"}
                     /\ At(f, i + 2) = "</action_status>" }
      i == IF triples = {} THEN 0 ELSE Least(triples)
      m == IF i = 0 THEN 0 ELSE IndexOf(f, "<action_message>", i + 3)
      n == IF m = 0 THEN 0 ELSE IndexOf(f, "</action_message>", m + 1)
      o == IF n = 0 THEN 0 ELSE IndexOf(f, "<omni_parser>", n + 1)
      z == IF o = 0 THEN 0 ELSE IndexOf(f, "</omni_parser>", o + 1)
      omni == IF z = 0 THEN <<>> ELSE SubSeq(f, o + 1, z - 1)
  IN IF n = 0 THEN NoMatch
     ELSE IF omni # <<>> /\ ~ValidJson(omni)
     THEN [ok |-> FALSE, threw |-> TRUE, content |-> <<>>]
     ELSE [ok |-> TRUE, threw |-> FALSE, content |-> SubSeq(f, m + 1, n - 1)]

\* earliestTag.pair.processor(fullTag)
Processor(k, f) ==
  CASE k = 1 -> ProcessFollowupQuestion(f)
    [] k = 2 -> ProcessCompleteTaskMatch(f)
    [] k = 3 -> PerformActionMatch(f)
    [] k = 4 -> PerformActionResultMatch(f)

\* One part of the result.  from and to are history: the tokens of the input
\* the part stands for.
Part(type, content, from, to) ==
  [type |-> type, content |-> content, from |-> from, to |-> to]

\* the text part pushed for a slice when its trim() is not empty
TextParts(slice, from) ==
  IF Trim(slice) = <<>> THEN <<>>
  ELSE <<Part("text", Trim(slice), from, from + Len(slice) - 1)>>

PastOpeningBracket(rem, index) == <<"x">> \o SubSeq(rem, index + 1, Len(rem))

\* remainingText.slice(earliestTag.index + earliestTag.pair.open.length)
PastOpeningTag(rem, index) == SubSeq(rem, index + 1, Len(rem))

\* One iteration of the loop, as history: remainingText at its start, the
\* opening tag it found ("" when it found none), remainingText at its end,
\* and whether it left the loop by break or by an exception.
Iteration(rem, open, next, exit) ==
  [rem |-> rem, open |-> open, next |-> next, exit |-> exit]

\* the loop of parseMessage on remainingText, off tokens into the input
RECURSIVE ParseFrom(_, _)
ParseFrom(rem, off) ==
  LET tagStarts == { k \in 1..4 : IndexOf(rem, TagPairs[k].open, 1) # 0 }
  IN IF Len(rem) = 0
     THEN [threw |-> FALSE, parts |-> <<>>, iterations |-> <<>>]
     ELSE IF tagStarts = {}
     THEN [threw |-> FALSE, parts |-> TextParts(rem, off + 1),
           iterations |-> <<Iteration(rem, "", rem, TRUE)>>]
     ELSE
       LET k == CHOOSE x \in tagStarts : \A y \in tagStarts :
                  IndexOf(rem, TagPairs[x].open, 1)
                    <= IndexOf(rem, TagPairs[y].open, 1)
           index == IndexOf(rem, TagPairs[k].open, 1)
           pre == TextParts(SubSeq(rem, 1, index - 1), off + 1)
           closeIndex == IndexOf(rem, TagPairs[k].close, index + 1)
       IN IF closeIndex = 0
          THEN LET next == PastOpeningTag(rem, index)
                   tail == ParseFrom(next, off + index)
               IN [threw |-> tail.threw,
                   parts |-> pre \o <<Part("text", <<TagPairs[k].open>>,
                                           off + index, off + index)>>
                                 \o tail.parts,
                   iterations |->
                     <<Iteration(rem, TagPairs[k].open, next, FALSE)>>
                       \o tail.iterations]
          ELSE LET pm == Processor(k, SubSeq(rem, index, closeIndex))
                   next == SubSeq(rem, closeIndex + 1, Len(rem))
                   tail == ParseFrom(next, off + closeIndex)
               IN IF pm.threw
                  THEN [threw |-> TRUE, parts |-> pre,
                        iterations |->
                          <<Iteration(rem, TagPairs[k].open, rem, TRUE)>>]
                  ELSE [threw |-> tail.threw,
                        parts |-> pre
                          \o (IF pm.ok
                              THEN <<Part(TagPairs[k].type, pm.content,
                                          off + index, off + closeIndex)>>
                              ELSE <<>>)
                          \o tail.parts,
                        iterations |->
                          <<Iteration(rem, TagPairs[k].open, next, FALSE)>>
                            \o tail.iterations]

\* parseMessage(text) -> [threw, parts]: the parts returned, or those pushed
\* when an exception left the function
ParseMessage(text) == ParseFrom(text, 0)

\* The segments texts are put together from.  body is the text between the
\* field tags of a well-formed tag, padded with blanks or not.
Bodies == { <<"x">>, <<Ws, "x", Ws>> }

FollowupTag(body) ==
  <<"<ask_followup_question>", "<question>">> \o body
    \o <<"</question>", "</ask_followup_question>">>

CompleteTaskTag(body) ==
  <<"<complete_task>", "<result>">> \o body
    \o <<"</result>", "</complete_task>">>

PerformActionTag(body) ==
  <<"<perform_action>", "<action>">> \o body
    \o <<"</action>", "</perform_action>">>

ActionResultTag(body, omni) ==
  <<"<perform_action_result>", "<action_status>", "success",
    "</action_status>", "<action_message>">> \o body
    \o <<"</action_message>", "<omni_parser>">> \o omni
    \o <<"</omni_parser>", "</perform_action_result>">>

\* the complete, well-formed tags, with the type and fields they spell
WellFormed ==
  { [tokens |-> FollowupTag(b), type |-> "followup_question", body |-> b] :
      b \in Bodies }
  \cup { [tokens |-> CompleteTaskTag(b), type |-> "complete_task",
          body |-> b] : b \in Bodies }
  \cup { [tokens |-> PerformActionTag(b), type |-> "perform_action",
          body |-> b] : b \in Bodies }
  \cup { [tokens |-> ActionResultTag(b, <<"{}">>), type |-> "action_result",
          body |-> b] : b \in Bodies }

Segments ==
  { w.tokens : w \in WellFormed }
  \cup { <<Ws>>, <<"x">> }
  \cup { <<TagPairs[k].open>> : k \in 1..4 }
  \cup { <<TagPairs[k].close>> : k \in 1..4 }
  \cup { <<"<complete_task>", "x", "</complete_task>">>,
         ActionResultTag(<<"x">>, <<"{bad">>) }

SegmentLists == UNION { [1..n -> Segments] : n \in 0..MaxSegments }

RECURSIVE Flatten(_)
Flatten(segs) ==
  IF segs = <<>> THEN <<>> ELSE Head(segs) \o Flatten(Tail(segs))

InitParse ==
  /\ InitExplore
  /\ InitStream
  /\ InitService
  /\ args \in { <<[text |-> Flatten(segs)]>> : segs \in SegmentLists }
  /\ result = <<>>

\* MessagePatterns.parseMessage(text)
ParseMessageCall ==
  /\ result = <<>>
  /\ result' = <<ParseMessage(args[1].text)>>
  /\ UNCHANGED <<args, exploreVars, streamVars, serviceVars>>

NextParse == ParseMessageCall

SpecParse == InitParse /\ [][NextParse]_vars

\* ============================================================ SSEService
\* The screen-stream service on its own.  eventSource is "null" or the
\* readyState of the EventSource the field holds; an EventSource that was
\* closed dispatches no further event.  timers are the delays of the reconnect
\* timers that were set and have not fired: setTimeout's handle is not kept.
\* live, delays, errors and lastCall are history: the EventSource objects not
\* closed, the delays scheduled and the errors met since a connection last
\* opened, and the caller's last call.
maxReconnectAttempts == 5

reconnectTimeout == 3000

MaxConnects == 3

\* connect(url): the EventSource already held is returned as it is.
ConnectCall(s) ==
  IF s.eventSource # "null"
  THEN s
  ELSE [s EXCEPT !.eventSource = "CONNECTING", !.live = @ + 1]

\* disconnect()
DisconnectCall(s) ==
  IF s.eventSource # "null"
  THEN [s EXCEPT !.eventSource = "null", !.live = @ - 1]
  ELSE s

ShouldReconnectInclusive(s) == s.reconnectAttempts <= maxReconnectAttempts

\* onerror's test before it schedules a reconnect
ShouldReconnect(s) == s.reconnectAttempts < maxReconnectAttempts

\* reconnectTimeout * Math.pow(2, reconnectAttempts - 1)
ReconnectDelay(n) == reconnectTimeout * 2 ^ (n - 1)

RemoveAt(seq, i) == SubSeq(seq, 1, i - 1) \o SubSeq(seq, i + 1, Len(seq))

\* A component calls connect().
Connect ==
  /\ sse.calls < MaxConnects
  /\ sse' = [ConnectCall(sse) EXCEPT !.lastCall = "connect", !.calls = @ + 1]
  /\ UNCHANGED <<exploreVars, streamVars, pureVars, vnc>>

\* A component calls disconnect().
Disconnect ==
  /\ sse' = [DisconnectCall(sse) EXCEPT !.lastCall = "disconnect"]
  /\ UNCHANGED <<exploreVars, streamVars, pureVars, vnc>>

\* eventSource.onopen
OnOpen ==
  /\ sse.eventSource = "CONNECTING"
  /\ sse' = [sse EXCEPT !.eventSource = "OPEN", !.reconnectAttempts = 0,
                        !.delays = <<>>, !.errors = 0]
  /\ UNCHANGED <<exploreVars, streamVars, pureVars, vnc>>

\* eventSource.onerror
OnError ==
  /\ sse.eventSource # "null"
  /\ LET closed == [DisconnectCall(sse) EXCEPT !.errors = @ + 1]
         n == closed.reconnectAttempts + 1
     IN sse' = IF ShouldReconnect(closed)
               THEN [closed EXCEPT
                       !.reconnectAttempts = n,
                       !.timers = Append(@, ReconnectDelay(n)),
                       !.delays = Append(@, ReconnectDelay(n))]
               ELSE closed
  /\ UNCHANGED <<exploreVars, streamVars, pureVars, vnc>>

\* A reconnect timer fires: connect(endpoint).
ReconnectTimerFires ==
  /\ \E i \in 1..Len(sse.timers) :
       sse' = [ConnectCall(sse) EXCEPT !.timers = RemoveAt(@, i)]
  /\ UNCHANGED <<exploreVars, streamVars, pureVars, vnc>>

NextSSE ==
  \/ Connect
  \/ Disconnect
  \/ OnOpen
  \/ OnError
  \/ ReconnectTimerFires

SpecSSE == Init /\ [][NextSSE]_vars

\* ====================================================== DockerVNCService
\* The Docker VNC driver on its own.  One initialize() runs at a time, and pc
\* is the promise it awaits; performAction(), getCurrentUrl() and cleanup()
\* may be called at any moment.  The Docker commands are the environment:
\* each settles with one of its outcomes.  containerId is 0 for null or ""
\* and 1 for the container.  outcome, failedAt and lastCall are history: how
\* the latest initialize() ended, the step that threw, and what the latest
\* performAction() or getCurrentUrl() since then returned and whether it ran
\* a container command.
maxAttempts == 60

MaxInits == 2

NoDriverCall == [by |-> "", status |-> "", ranCommand |-> FALSE]

CleanupKeepsConnected(v) == [v EXCEPT !.isInitialized = FALSE]

\* cleanup()
CleanupCall(v) == [v EXCEPT !.isInitialized = FALSE, !.isConnected = FALSE]

\* the catch of initialize(): cleanup(), and the error is thrown again
Fail(v, step) ==
  [CleanupCall(v) EXCEPT !.pc = "idle", !.outcome = "failed",
                         !.failedAt = step, !.lastCall = NoDriverCall]

\* initialize() returns its success response
Succeed(v) == [v EXCEPT !.pc = "idle", !.outcome = "success"]

\* the guard performAction() and getCurrentUrl() start with
NotInitialized(v) ==
  ~v.isInitialized \/ ~v.isConnected \/ v.containerId = 0

\* waitForServices() is entered: without a container id it throws at once
EnterWait(v) ==
  IF v.containerId = 0 THEN Fail(v, "wait")
  ELSE [v EXCEPT !.pc = "wait", !.attempts = 0]

\* initialize(url)
Initialize ==
  /\ vnc.pc = "idle"
  /\ vnc.inits < MaxInits
  /\ \E url \in BOOLEAN :
       vnc' = [vnc EXCEPT !.pc = "check", !.url = url, !.outcome = "",
                          !.failedAt = "", !.lastCall = NoDriverCall,
                          !.inits = @ + 1]
  /\ UNCHANGED <<exploreVars, streamVars, pureVars, sse>>

\* DockerCommands.checkContainerStatus settles
CheckContainerStatusDone ==
  /\ vnc.pc = "check"
  /\ \E status \in {"throws", "absent", "stopped", "running"} :
       vnc' = CASE status = "throws" -> Fail(vnc, "check")
                [] status = "absent" ->
                     [vnc EXCEPT !.pc = "image", !.existing = FALSE]
                [] status = "stopped" ->
                     [vnc EXCEPT !.pc = "start", !.existing = TRUE,
                                 !.containerId = 1]
                [] status = "running" ->
                     EnterWait([vnc EXCEPT !.existing = TRUE,
                                           !.containerId = 1])
  /\ UNCHANGED <<exploreVars, streamVars, pureVars, sse>>

\* DockerCommands.startContainer settles
StartContainerDone ==
  /\ vnc.pc = "start"
  /\ \E ok \in BOOLEAN :
       vnc' = IF ok THEN EnterWait(vnc) ELSE Fail(vnc, "start")
  /\ UNCHANGED <<exploreVars, streamVars, pureVars, sse>>

\* ensureImageExists() settles
EnsureImageDone ==
  /\ vnc.pc = "image"
  /\ \E ok \in BOOLEAN :
       vnc' = IF ok THEN [vnc EXCEPT !.pc = "create"] ELSE Fail(vnc, "image")
  /\ UNCHANGED <<exploreVars, streamVars, pureVars, sse>>

\* DockerCommands.createContainer settles, with an id, "" or an error
CreateContainerDone ==
  /\ vnc.pc = "create"
  /\ \E id \in {-1, 0, 1} :
       vnc' = IF id = -1 THEN Fail(vnc, "create")
              ELSE EnterWait([vnc EXCEPT !.containerId = id])
  /\ UNCHANGED <<exploreVars, streamVars, pureVars, sse>>

\* one turn of the loop of waitForServices(): checkServiceDetailed settles
PollServices ==
  /\ vnc.pc = "wait"
  /\ vnc.attempts < maxAttempts
  /\ \E status \in {"throws", "ready", "waiting"} :
       vnc' = CASE status = "throws" -> Fail(vnc, "poll")
                [] status = "ready" -> [vnc EXCEPT !.pc = "settle"]
                [] status = "waiting" ->
                     IF vnc.attempts + 1 < maxAttempts
                     THEN [vnc EXCEPT !.attempts = @ + 1]
                     ELSE Fail([vnc EXCEPT !.attempts = @ + 1], "timeout")
  /\ UNCHANGED <<exploreVars, streamVars, pureVars, sse>>

\* the 5 s after waitForServices() are over: the flags are set
ServicesSettled ==
  /\ vnc.pc = "settle"
  /\ LET set == [vnc EXCEPT !.isConnected = TRUE, !.isInitialized = TRUE]
     IN vnc' = IF set.url /\ set.containerId # 0
               THEN [set EXCEPT !.pc = "launch"]
               ELSE Succeed(set)
  /\ UNCHANGED <<exploreVars, streamVars, pureVars, sse>>

\* launchFirefoxWithUrl(url) settles
LaunchDone ==
  /\ vnc.pc = "launch"
  /\ \E ok \in BOOLEAN :
       vnc' = IF ok THEN Succeed(vnc) ELSE Fail(vnc, "launch")
  /\ UNCHANGED <<exploreVars, streamVars, pureVars, sse>>

\* performAction(action, params), with the outcome of the commands it runs
PerformAction ==
  /\ \E status \in {"success", "error"} :
       vnc' = [vnc EXCEPT !.lastCall =
                 IF NotInitialized(vnc)
                 THEN [by |-> "performAction", status |-> "error",
                       ranCommand |-> FALSE]
                 ELSE [by |-> "performAction", status |-> status,
                       ranCommand |-> TRUE]]
  /\ UNCHANGED <<exploreVars, streamVars, pureVars, sse>>

\* getCurrentUrl()
GetCurrentUrl ==
  /\ \E status \in {"success", "error"} :
       vnc' = [vnc EXCEPT !.lastCall =
                 IF NotInitialized(vnc)
                 THEN [by |-> "getCurrentUrl", status |-> "error",
                       ranCommand |-> FALSE]
                 ELSE [by |-> "getCurrentUrl", status |-> status,
                       ranCommand |-> TRUE]]
  /\ UNCHANGED <<exploreVars, streamVars, pureVars, sse>>

\* cleanup() called from outside
CleanupVNC ==
  /\ vnc' = CleanupCall(vnc)
  /\ UNCHANGED <<exploreVars, streamVars, pureVars, sse>>

NextVNC ==
  \/ Initialize
  \/ CheckContainerStatusDone
  \/ StartContainerDone
  \/ EnsureImageDone
  \/ CreateContainerDone
  \/ PollServices
  \/ ServicesSettled
  \/ LaunchDone
  \/ PerformAction
  \/ GetCurrentUrl
  \/ CleanupVNC

\* isInitialized is a field of BaseStreamingService, whose declaration is not
\* part of this file: the service starts with either value of it.
InitVNC ==
  /\ InitExplore
  /\ InitStream
  /\ InitPure
  /\ sse = NewSSEService
  /\ vnc \in { [NewDockerVNCService EXCEPT !.isInitialized = b] :
                b \in BOOLEAN }

SpecVNC == InitVNC /\ [][NextVNC]_vars

\* ============================================================ claims
Outstanding == { t \in TurnIds : turns[t].pc = "inflight" }

\* C1: in every reachable state at most one model call (a request of
\* sendExploreChatMessage that has not been answered) is outstanding.
C1_AtMostOneOutstanding == Cardinality(Outstanding) <= 1

\* C2: a call of handleExploreMessage made while isProcessing is true is a
\* no-op: no request is issued, nothing is kept for later, and
\* activeMessageId, the message list, the graph and the frontier are unchanged.
C2_GuardedStartIsNoOp ==
  [][(pendingCall # NoCall /\ isProcessing)
       => (pendingCall' = NoCall
           /\ UNCHANGED <<chatVars, graphVars, turns, now>>)]_vars

C2_Witness == pendingCall # NoCall /\ isProcessing

\* C3: stopStreaming during a turn leaves activeMessageId null, isProcessing
\* false, streaming off and no message partial; and the reply of a stopped turn
\* that arrives afterwards leaves the message list as it was.
C3_StopClearsAndSuppresses ==
  [][/\ (\E t \in TurnIds : turns'[t].stopped # turns[t].stopped)
          => (/\ activeMessageId' = 0
              /\ ~isProcessing'
              /\ ~isChatStreaming'
              /\ ~hasPartialMessage'
              /\ ~HasPartial(messages'))
     /\ \A t \in TurnIds :
          (turns[t].stopped = "inflight" /\ turns[t].pc = "inflight"
             /\ turns'[t].pc # "inflight")
          => messages' = messages]_vars

C3_Witness ==
  \E t \in TurnIds :
     /\ turns[t].stopped = "inflight"
     /\ turns[t].pc = "done"
     /\ Len(messages) > 0

\* C8: getNextToExplore never returns an item of a route while a route that
\* comes earlier in exploreRoute still has a queued item.
C8_NoLaterRouteFirst ==
  [][Len(explored') > Len(explored)
       => LET it == explored'[Len(explored')]
          IN \A i, j \in 1..Len(exploreRoute') :
               (i < j /\ exploreRoute'[j] = it.url)
               => exploreQueue'[exploreRoute'[i]] = <<>>]_vars

\* an item was just returned while another route holds queued items
C8_Witness ==
  /\ Len(explored) > 0
  /\ pendingCall.message = "directed"
  /\ \E u \in URLs :
       u # explored[Len(explored)].url /\ exploreQueue[u] # <<>>

\* C9: the exploration ends for want of a next item only when no route has a
\* queued item left: whenever some queue is non-empty getNextToExplore returns
\* an item.
C9_StopsOnlyWhenAllEmpty ==
  [][\A t \in TurnIds :
       (turns[t].pc # "exhausted" /\ turns'[t].pc = "exhausted")
       => \A u \in URLs : exploreQueue'[u] = <<>>]_vars

\* C10: within a route the frontier is a FIFO queue consumed on selection:
\* items come back in the order handleQueueUpdate appended them (uuid order),
\* the items still queued are younger than every item returned, and no item
\* comes back twice.
C10_FifoConsumed ==
  /\ \A i, j \in 1..Len(explored) :
       i < j => /\ explored[i].id # explored[j].id
                /\ explored[i].url = explored[j].url
                     => explored[i].id < explored[j].id
  /\ \A u \in URLs :
       /\ \A k, l \in 1..Len(exploreQueue[u]) :
            k < l => exploreQueue[u][k].id < exploreQueue[u][l].id
       /\ \A k \in 1..Len(exploreQueue[u]), i \in 1..Len(explored) :
            /\ exploreQueue[u][k].id # explored[i].id
            /\ explored[i].url = u => explored[i].id < exploreQueue[u][k].id

C10_Witness ==
  \E i, j \in 1..Len(explored) : i < j /\ explored[i].url = explored[j].url

\* ------------------------------------------------- streamResponse claims
Terminals(r) == { i \in 1..Len(r) : r[i].isComplete \/ r[i].isError }
CompleteEvents(r) == { i \in 1..Len(r) : r[i].isComplete }
ErrorEvents(r) == { i \in 1..Len(r) : r[i].isError }
\* the attempts that ended in the catch of processStream
FailedAttempts(r) ==
  { r[i].attempt : i \in { k \in 1..Len(r) : r[k] = RetryEvent(r[k].attempt) } }

\* C4: a call whose attempts have failed retryCount times, for any retryCount,
\* has written exactly one event with isError true and none with isComplete,
\* and the client that has read them invoked onError once and never
\* onComplete.
C4_ExhaustedSurfacesOneError ==
  (streamPc = "resolved" /\ Cardinality(FailedAttempts(res)) = retryCount)
  => /\ Cardinality(ErrorEvents(res)) = 1
     /\ CompleteEvents(res) = {}
     /\ res[Len(res)].isError
     /\ (clientPc = "ended" /\ readerPos = Len(res))
        => (onErrorCalls = 1 /\ onCompleteCalls = 0)

C4_Witness ==
  /\ streamPc = "resolved"
  /\ retryCount = MaxRetry
  /\ Cardinality(FailedAttempts(res)) = retryCount
  /\ \E i \in 1..Len(res) : res[i] = DeltaEvent(1)
  /\ clientPc = "ended"

\* C5: a call makes at most retryCount attempts; every attempt hands the model
\* the whole request built anew from the call's message, history, image and
\* type; and no attempt follows the one that succeeded.
C5_AtMostRetryCountFullAttempts ==
  /\ attempt <= retryCount
  /\ attempt > 0
     => \E url \in URLs \cup {NoUrl} :
          messageRequest = FormatMessagesWithHistory("message", history,
                                                     imageData, callType, url)
  /\ \A i \in CompleteEvents(res) :
       res[i].attempt = attempt /\ streamPc = "resolved"

\* the second attempt succeeded after the first one failed part-way
C5_Witness ==
  /\ streamPc = "resolved"
  /\ attempt = 2
  /\ retryCount > 2
  /\ CompleteEvents(res) # {}
  /\ res[1] = DeltaEvent(1)

\* C6: once the client has been told the turn is complete, the chunks its
\* caller accumulated are the text deltas of the attempt that succeeded and
\* nothing else.
C6_OnlySuccessfulDeltasAccumulated ==
  \A i \in CompleteEvents(res) :
    (clientPc = "ended" /\ readerPos = i)
    => \A k \in 1..Len(fullResponse) :
         fullResponse[k] = DeltaEvent(res[i].attempt)

\* C7: no event follows a terminal event (isComplete, or isError true), and a
\* call that has settled has written exactly one terminal event; for EXPLORE
\* and for ACTION calls, whether or not generateComponentDescription fails.
C7_ExactlyOneTerminalEvent ==
  /\ \A i \in Terminals(res) : i = Len(res)
  /\ streamPc \in Settled => Cardinality(Terminals(res)) = 1

\* C31: generateComponentDescription makes no model call for a url whose
\* description succeeded before: the step that reads the current url of such a
\* page returns false instead of starting the description.
C31_Step ==
  (streamPc = "describe" /\ streamPc' = "describing") =>
    pageUrl' \notin described

C31_DescribedPageSkipped == [][C31_Step]_vars

\* C36: for one request the streaming client invokes at most one terminal
\* callback, onComplete or onError, and once its reading loop has ended it
\* has invoked exactly one, whatever the order of data, end of stream,
\* timeout and cancellation.
C36_OneTerminalCallback ==
  /\ onCompleteCalls + onErrorCalls <= 1
  /\ clientPc = "ended" => onCompleteCalls + onErrorCalls = 1

\* C35: pageRouter holds a url only while the description of that url is in
\* flight; once generateComponentDescription has returned or thrown the set
\* no longer holds it.
C35_RouterHoldsInFlightOnly ==
  pageRouter = IF streamPc = "describing" THEN {pageUrl} ELSE {}


\* ------------------------------------------------------------ the graph
NodeOf(url) == CreateEdgeOrNode(nodes, url)

RECURSIVE QueuedItems(_)
QueuedItems(us) ==
  IF us = {} THEN 0
  ELSE LET u == CHOOSE x \in us : TRUE
       IN Len(exploreQueue[u]) + QueuedItems(us \ {u})

\* the frontier items that were created and are neither queued nor handed out:
\* they went when their url was recorded again and its queue reset
Dropped == uuid - Len(nodes) - Len(explored) - QueuedItems(URLs)

EdgeFor(cur, b) ==
  [id |-> cur.id, source |-> NodeOf(cur.url).id, target |-> b.id,
   label |-> cur.label]

\* C12: a step that adds the node of a new page while a frontier item is being
\* explored adds exactly one edge, from the node of the item's page to the new
\* node, labelled with the item's text; a step that adds a node while no item
\* is being explored adds no edge.
C12_Step ==
  Len(nodes') > Len(nodes) =>
    /\ Len(nodes') = Len(nodes) + 1
    /\ IF currentlyExploring.id # 0
       THEN /\ ~NodeOf(currentlyExploring.url).createNode
            /\ edges' = Append(edges, EdgeFor(currentlyExploring,
                                              nodes'[Len(nodes')]))
       ELSE edges' = edges

C12_OneEdgePerDiscovery == [][C12_Step]_vars


\* C13: the graph never contains an edge whose source and target are the
\* same node.
C13_NoSelfLoop ==
  \A i \in 1..Len(edges) : edges[i].source # edges[i].target


\* ------------------------------------------------- the reply processed
\* the handler of turn t finishes a reply that holds <complete_task>, no action
\* result and no clickable element
CompleteTaskOnly(t) ==
  /\ turns[t].pc = "process"
  /\ turns[t].text
  /\ Branch(t, TRUE, FALSE,
            [Unchanged(FALSE) EXCEPT
               !.route = CleanCompletedQueue(exploreRoute, exploreQueue)])

\* no request is outstanding or about to be sent, and none is being processed
Idle == pendingCall = NoCall /\ ~isProcessing /\ ~isChatStreaming

\* C14: on an empty graph, the step that processes a reply holding only
\* <complete_task> leaves exactly one node (the page the driver is on), no
\* edge, and the hook idle with no further model turn on its way.
C14_Step ==
  \A t \in TurnIds :
    (nodes = <<>> /\ edges = <<>> /\ CompleteTaskOnly(t)) =>
      /\ Len(nodes') = 1
      /\ nodes'[1].label \in URLs
      /\ edges' = <<>>
      /\ Idle'

C14_CompleteTaskOnEmptyGraph == [][C14_Step]_vars


\* the handler of turn t, whose reply reported elements and neither an action
\* result nor <complete_task>, resumes with no URL from getCurrentUrl
NoUrlReported(t) ==
  /\ turns[t].pc = "url"
  /\ \E elems \in ElementsRead(t, NoUrl), image \in ImagesRead(t, NoUrl) :
       Branch(t, FALSE, FALSE,
              ProcessExploreOutput(elems, image, turns[t].parent, NoUrl,
                                   turns[t].routeSet, exploreQueue,
                                   exploreRoute, nodes, edges,
                                   currentlyExploring, uuid))

\* the directed-action call onGettingExploredMode makes for a dequeued item
DirectedCall == [type |-> "action", message |-> "directed"]

\* C15: when getCurrentUrl yields nothing for a turn that discovered elements,
\* nodes, edges and visited routes are unchanged, no queue changes but for the
\* next pending item, and that item is dequeued and its directed action sent.
C15_Step ==
  \A t \in TurnIds :
    NoUrlReported(t) =>
      LET nx == GetNextToExplore(exploreRoute, exploreQueue, currentlyExploring)
      IN /\ nodes' = nodes
         /\ edges' = edges
         /\ exploreRoute' = exploreRoute
         /\ exploreQueue' = nx.queue
         /\ nx.found => pendingCall' = DirectedCall

C15_NoUrlStillDequeues == [][C15_Step]_vars


\* C16: currentlyExploring is set only while the directed action of the item
\* is being sent or awaits its result; it is cleared once that turn has been
\* processed and when the exploration ends.
C16_SetOnlyWhileDirected ==
  currentlyExploring # NoItem => (pendingCall = DirectedCall \/ isProcessing)


\* ------------------------------------------------- handleQueueUpdate
\* the positions of elems that carry both a text and coordinates
Both(elems) ==
  { i \in 1..Len(elems) : elems[i].text # "" /\ elems[i].coordinates # "" }

\* the k-th of those positions, in element order
Kth(elems, k) ==
  CHOOSE i \in Both(elems) :
    Cardinality({ j \in Both(elems) : j <= i }) = k

\* C17: the queue of the new page holds exactly one item per element that
\* has both text and coordinates, in element order, carrying that element's
\* text and coordinates, the page's url and node; nothing else changes.
C17_OneItemPerUsableElement ==
  result # <<>> =>
    LET a == args[1]
        q == result[1].queue
    IN /\ \A u \in URLs \ {a.url} : q[u] = a.queue[u]
       /\ Len(q[a.url]) = Cardinality(Both(a.elements))
       /\ \A k \in 1..Len(q[a.url]) :
            /\ q[a.url][k].text = a.elements[Kth(a.elements, k)].text
            /\ q[a.url][k].coordinates =
                 a.elements[Kth(a.elements, k)].coordinates
            /\ q[a.url][k].url = a.url
            /\ q[a.url][k].nodeId = a.nodeId
       /\ \A k, l \in 1..Len(q[a.url]) :
            q[a.url][k].id = q[a.url][l].id => k = l

\* three elements, the second without coordinates, have been enqueued
C17_Witness ==
  /\ result # <<>>
  /\ args[1].elements = <<[text |-> "Login", coordinates |-> "10,20"],
                          [text |-> "Signup", coordinates |-> ""],
                          [text |-> "Signup", coordinates |-> "10,20"]>>
  /\ Len(result[1].queue[args[1].url]) = 2


\* the handler of turn t resumes with url from getCurrentUrl and runs to its end
UrlReported(t, url) ==
  /\ turns[t].pc = "url"
  /\ \E actionResult \in BOOLEAN, completeTask \in BOOLEAN :
       \E elems \in ElementsRead(t, url), image \in ImagesRead(t, url) :
         Branch(t, completeTask, actionResult,
                ProcessExploreOutput(elems, image, turns[t].parent, url,
                                     turns[t].routeSet, exploreQueue,
                                     exploreRoute, nodes, edges,
                                     currentlyExploring, uuid))

\* C18: a turn whose current URL is already among the visited routes creates
\* no frontier item, no node and no edge, and does not reset the queue of that
\* URL: the queue is as it was, or lacks only the head that was dequeued.
C18_Step ==
  \A t \in TurnIds : \A url \in SeqToSet(exploreRoute) :
    UrlReported(t, url) =>
      /\ nodes' = nodes
      /\ edges' = edges
      /\ uuid' = uuid
      /\ \/ exploreQueue'[url] = exploreQueue[url]
         \/ /\ exploreQueue[url] # <<>>
            /\ exploreQueue'[url] = Tail(exploreQueue[url])

C18_VisitedUrlAddsNothing == [][C18_Step]_vars


\* the handler of turn t finishes a reply that holds <complete_task>, with or
\* without elements and action result
CompleteTaskReply(t) ==
  \/ /\ turns[t].pc = "process"
     /\ turns[t].text
     /\ \E actionResult \in BOOLEAN :
          Branch(t, TRUE, actionResult,
                 [Unchanged(FALSE) EXCEPT
                    !.route = CleanCompletedQueue(exploreRoute, exploreQueue)])
  \/ /\ turns[t].pc = "url"
     /\ \E url \in URLs \cup {NoUrl}, actionResult \in BOOLEAN :
          \E elems \in ElementsRead(t, url), image \in ImagesRead(t, url) :
            Branch(t, TRUE, actionResult,
                   ProcessExploreOutput(elems, image, turns[t].parent, url,
                                        turns[t].routeSet, exploreQueue,
                                        exploreRoute, nodes, edges,
                                        currentlyExploring, uuid))

\* C19: the step that processes a reply holding <complete_task> either
\* dequeues one frontier item and makes the directed-action call for it, or,
\* with no item left, leaves the hook idle with no further model turn.
C19_Step ==
  \A t \in TurnIds :
    CompleteTaskReply(t) =>
      \/ /\ Len(explored') = Len(explored) + 1
         /\ currentlyExploring'.id = explored'[Len(explored')].id
         /\ pendingCall' = DirectedCall
      \/ /\ explored' = explored
         /\ NextRoute(exploreRoute') # NoUrl =>
              exploreQueue'[NextRoute(exploreRoute')] = <<>>
         /\ Idle'

C19_CompleteTaskDequeues == [][C19_Step]_vars


\* ------------------------------------------------- the history passed
NotPartial(m) == ~m.isPartial

\* the history handleExploreMessage hands to sendExploreChatMessage:
\* messagesRef.current.filter((msg) => !msg.isPartial)
HistoryPassed == SelectSeq(messagesRef, NotPartial)

\* handleExploreMessage is about to send the directed action of a dequeued item
DirectedStart == pendingCall = DirectedCall /\ ~isProcessing

\* C20: the history sent with the directed action of a dequeued item holds
\* nothing but that directed instruction.
C20_DirectedHistoryIsFresh ==
  DirectedStart =>
    \A i \in 1..Len(HistoryPassed) : HistoryPassed[i].text = "directed"


\* ------------------------------------------------- filler and errors
\* the handler of turn t finishes a reply with no <complete_task>, no action
\* result and no clickable element
FillerReply(t) ==
  /\ turns[t].pc = "process"
  /\ Branch(t, FALSE, FALSE,
            [Unchanged(FALSE) EXCEPT
               !.route = CleanCompletedQueue(exploreRoute, exploreQueue)])

\* C21: the step that processes a filler reply leaves nodes, edges, visited
\* routes, frontier queues and currentlyExploring as they were, dequeues
\* nothing, starts no turn and releases the admission guard.
C21_Step ==
  \A t \in TurnIds :
    FillerReply(t) =>
      /\ nodes' = nodes
      /\ edges' = edges
      /\ exploreRoute' = exploreRoute
      /\ exploreQueue' = exploreQueue
      /\ currentlyExploring' = currentlyExploring
      /\ explored' = explored
      /\ pendingCall' = NoCall
      /\ ~isProcessing'

C21_FillerLeavesFrontier == [][C21_Step]_vars

\* the directed turn of an item was answered with filler while another item
\* waits: the reply is in the conversation as history and the hook is idle
C21_Witness ==
  /\ Idle
  /\ activeMessageId = 0
  /\ currentlyExploring # NoItem
  /\ Len(exploreQueue[currentlyExploring.url]) > 0
  /\ Len(messages) > 0
  /\ messages[Len(messages)].text = "response"
  /\ messages[Len(messages)].isHistory


\* the error messages of a conversation
Errors(msgs) == { i \in 1..Len(msgs) : msgs[i].text = "error" }

\* C28: every step that changes the node list, the edge list or a frontier
\* queue, and in which no write to localStorage failed, ends with the persisted
\* graph equal to the graph in memory and the persisted queues equal to the
\* queues in memory.
WriteFailed == \E t \in TurnIds : turns'[t].pc = "threw" /\ turns[t].pc = "url"

C28_Step ==
  (/\ nodes' # nodes \/ edges' # edges \/ exploreQueue' # exploreQueue
   /\ ~WriteFailed)
  => /\ storedMap' = <<[nodes |-> nodes', edges |-> edges']>>
     /\ storedQueue' = <<exploreQueue'>>

C28_SnapshotFollowsMemory == [][C28_Step]_vars

\* C29: a handler run in which the snapshot write fails keeps what it changed
\* in memory and still reaches the handler's normal end: the admission guard
\* is released, with the next turn about to start or none left to start.
C29_Step ==
  \A t \in TurnIds :
    SnapshotThrows(t) =>
      /\ Len(nodes') >= Len(nodes)
      /\ Len(edges') >= Len(edges)
      /\ ~isProcessing'
      /\ turns'[t].pc \in {"done", "exhausted"}

C29_SnapshotFailureNotFatal == [][C29_Step]_vars

\* the caller of turn t is still waiting for it: the turn is the active one
\* and neither its request nor its completion handler has ended
Waiting(t) == activeMessageId = t /\ turns[t].pc \in Live

\* C30: a turn the caller waits for eventually ends, by completion, by an
\* error or by a stop, even when the backend sends nothing.
C30_TurnEventuallyEnds ==
  \A t \in TurnIds : Waiting(t) ~> ~Waiting(t)

\* a step of the completion handler of turn t: the reply is received, or one
\* of the promises the handler awaits settles
HandlerStep(t) ==
  \/ ResponseArrives(t)
  \/ ProcessMessageDone(t)
  \/ CurrentUrlDone(t)
  \/ SnapshotThrows(t)

\* turn t was stopped while it was the active turn, or a newer turn is the
\* active one
Superseded(t) ==
  \/ turns[t].stopped # ""
  \/ activeMessageId # 0 /\ activeMessageId # t

\* C32: a step of the completion handler of a turn that was stopped, or that
\* a newer turn has superseded, has no effect: it adds no node, edge or
\* frontier item, dequeues nothing and starts no turn.
C32_Step ==
  \A t \in TurnIds :
    (Superseded(t) /\ HandlerStep(t)) =>
      /\ nodes' = nodes
      /\ edges' = edges
      /\ exploreQueue' = exploreQueue
      /\ explored' = explored
      /\ pendingCall' = NoCall

C32_StoppedHandlerHasNoEffect == [][C32_Step]_vars

\* C33: in every step a url that is among the visited routes stays among
\* them, and its frontier queue is not emptied: the queue is as it was, or
\* has grown, or lacks only the head that was dequeued.
C33_Step ==
  \A url \in SeqToSet(exploreRoute) :
    /\ url \in SeqToSet(exploreRoute')
    /\ \/ Len(exploreQueue'[url]) >= Len(exploreQueue[url])
       \/ /\ exploreQueue[url] # <<>>
          /\ exploreQueue'[url] = Tail(exploreQueue[url])

C33_RoutesOnlyGrow == [][C33_Step]_vars

\* C34: no two edges of the graph share an id.
C34_EdgeIdsUnique ==
  \A i, j \in 1..Len(edges) : edges[i].id = edges[j].id => i = j

\* C22: a step in which the active turn ends in an error, be it the request
\* that fails or the completion handler that throws, appends exactly one error
\* message, as the last message, and leaves isProcessing false,
\* activeMessageId null and streaming off.  No step at all adds more than one
\* error message.
C22_Step ==
  /\ Cardinality(Errors(messages')) <= Cardinality(Errors(messages)) + 1
  /\ \A t \in TurnIds :
       (activeMessageId = t /\ (RequestFails(t) \/ SnapshotThrows(t))) =>
         /\ Len(messages') = Len(messages) + 1
         /\ Errors(messages') = Errors(messages) \cup {Len(messages')}
         /\ ~isProcessing'
         /\ activeMessageId' = 0
         /\ ~isChatStreaming'
         /\ turns'[t].pc \notin Live

C22_OneErrorAndResumable == [][C22_Step]_vars


\* ------------------------------------------------------- parseMessage
\* the opening tags of text that no closing tag of their kind follows, and
\* that do not lie between another opening tag and its closing tag
Unclosed(text) ==
  { i \in 1..Len(text) :
      /\ \E k \in 1..4 : /\ text[i] = TagPairs[k].open
                         /\ IndexOf(text, TagPairs[k].close, i + 1) = 0
      /\ \A j \in 1..(i - 1) : \A k \in 1..4 :
           text[j] = TagPairs[k].open =>
             IndexOf(text, TagPairs[k].close, i + 1) = 0 }

\* C23: for a text with an opening tag that no matching closing tag follows,
\* parseMessage does not throw, returns that tag verbatim as a text part and
\* after it the parts of the text that follows the tag.
C23_UnclosedTagIsText ==
  result # <<>> =>
    \A i \in Unclosed(args[1].text) :
      /\ ~result[1].threw
      /\ \E p \in 1..Len(result[1].parts) :
           /\ result[1].parts[p] = Part("text", <<args[1].text[i]>>, i, i)
           /\ SubSeq(result[1].parts, p + 1, Len(result[1].parts))
                = ParseFrom(SubSeq(args[1].text, i + 1, Len(args[1].text)),
                            i).parts

\* C24: parseMessage returns for every text; it never throws.
C24_ParseIsTotal == result # <<>> => ~result[1].threw

\* C25: every token of the text that is not a blank lies in the region some
\* returned part stands for.
C25_NothingDiscarded ==
  (result # <<>> /\ ~result[1].threw) =>
    \A i \in 1..Len(args[1].text) :
      args[1].text[i] # Ws =>
        \E p \in 1..Len(result[1].parts) :
          result[1].parts[p].from <= i /\ i <= result[1].parts[p].to

\* C26: a text that is one complete, well-formed tag with blanks around it
\* yields exactly one part, of the tag's type, whose field is the tag's body
\* without the blanks that pad it.
C26_WellFormedTagTrimmed ==
  result # <<>> =>
    \A w \in WellFormed :
      Trim(args[1].text) = w.tokens =>
        /\ ~result[1].threw
        /\ Len(result[1].parts) = 1
        /\ result[1].parts[1].type = w.type
        /\ result[1].parts[1].content = Trim(w.body)


\* ------------------------------------------- handleEdgeAndNodeCreation
\* C27: recording, with a screenshot, a page whose node exists without one
\* returns the id of that node and leaves the node with the screenshot.
C27_ScreenshotBackfilled ==
  result # <<>> =>
    \A i \in 1..Len(args[1].nodes) :
      (/\ args[1].nodes[i].label = args[1].url
       /\ ~args[1].nodes[i].imageData
       /\ args[1].imageData) =>
        /\ result[1].nodeId = args[1].nodes[i].id
        /\ Len(result[1].nodes) = Len(args[1].nodes)
        /\ result[1].nodes[i].imageData

\* C37: the service holds at most one EventSource that is not closed, and
\* while the caller's last call is disconnect() the service holds no
\* EventSource, whatever reconnect timer is still pending.
C37_NoReconnectAfterDisconnect ==
  /\ sse.live <= 1
  /\ sse.lastCall = "disconnect" => sse.eventSource = "null"

\* C38: the reconnects scheduled since a connection last opened number
\* reconnectAttempts, which is never above maxReconnectAttempts; the n-th of
\* them waits reconnectTimeout * 2^(n-1) ms; and the step in which a
\* connection opens leaves reconnectAttempts at 0.
C38_Backoff(s) ==
  /\ s.reconnectAttempts <= maxReconnectAttempts
  /\ Len(s.delays) = s.reconnectAttempts
  /\ \A n \in 1..Len(s.delays) : s.delays[n] = 3000 * 2 ^ (n - 1)

C38_Step == C38_Backoff(sse') /\ (OnOpen => sse'.reconnectAttempts = 0)

C38_BoundedBackoff == [][C38_Step]_vars

\* Five reconnects were scheduled and the connection failed once more.
C38_Witness ==
  /\ sse.errors > maxReconnectAttempts
  /\ sse.delays = <<3000, 6000, 12000, 24000, 48000>>

\* the characters a text of tokens spells
RECURSIVE CharLen(_)
CharLen(text) ==
  IF text = <<>> THEN 0 ELSE Len(Head(text)) + CharLen(Tail(text))

\* C39: parseMessage returns or throws on every text, and every iteration of
\* its loop either leaves the loop or ends with a remaining text shorter than
\* the one it started with by at least the characters of the opening tag it
\* found; the next iteration, if any, starts from that shorter text.
C39_EachIterationShortens ==
  result # <<>> =>
    LET its == result[1].iterations
    IN \A i \in 1..Len(its) :
         /\ its[i].exit => i = Len(its)
         /\ ~its[i].exit =>
              /\ its[i].open \in { TagPairs[k].open : k \in 1..4 }
              /\ CharLen(its[i].next) + Len(its[i].open)
                   <= CharLen(its[i].rem)
              /\ i < Len(its) => its[i + 1].rem = its[i].next

\* A text whose loop ran past an opening tag without its closing tag, then
\* past a complete tag, and then left the loop with text and no tag.
C39_Witness ==
  /\ result # <<>>
  /\ Len(result[1].iterations) = 3
  /\ result[1].iterations[1].next
       = PastOpeningTag(result[1].iterations[1].rem, 1)
  /\ Len(result[1].iterations[2].rem) - Len(result[1].iterations[2].next) > 1
  /\ result[1].iterations[3].exit

\* C40: once initialize() has failed, at whatever step, isInitialized and
\* isConnected are both false, and every performAction() or getCurrentUrl()
\* called since has returned status error without running a container
\* command.
C40_FailedInitLeavesServiceDown ==
  vnc.outcome = "failed" =>
    /\ vnc.pc = "idle"
    /\ ~vnc.isInitialized
    /\ ~vnc.isConnected
    /\ vnc.lastCall.by # "" =>
         (vnc.lastCall.status = "error" /\ ~vnc.lastCall.ranCommand)

\* initialize() set the flags, the Firefox launch failed, and performAction()
\* was called afterwards.
C40_Witness ==
  /\ vnc.outcome = "failed"
  /\ vnc.failedAt = "launch"
  /\ vnc.containerId = 1
  /\ vnc.lastCall.by = "performAction"


====
